---- MODULE Spec2Model ----
(***************************************************************************)
(* credo.logger: the Logger facade (src/index.ts), the console sink        *)
(* (src/lib/ConsoleLogger.ts), the severity parser (src/lib/common.ts)     *)
(* and the process-wide singleton, as a state machine.                     *)
(*                                                                         *)
(* JavaScript values are tagged records, so that the dynamic checks of the *)
(* code (truthiness, typeof, instanceof, >) are computed as the code       *)
(* computes them.                                                          *)
(***************************************************************************)
EXTENDS Integers, Sequences, FiniteSets, TLC

VARIABLES
    instance,   \* src/index.ts:23  the module variable holding the singleton
    nextId,     \* identity of the next Logger object the constructor returns
    cout,       \* what console.log/info/warn/error have printed, in order
    tout,       \* what the telemetry client has been handed, in order
    finished,   \* per response object: has it finished (on-finished's view)
    listeners,  \* per response object: callbacks on-finished holds for it
    immediates, \* callbacks on-finished deferred because the response was done
    result      \* the last operation and its outcome: a return value or a throw

vars == <<instance, nextId, cout, tout, finished, listeners, immediates, result>>

---------------------------------------------------------------------------
(* Bounds *)

MaxOut      == 1    \* lines per sink (pending request lines included)

---------------------------------------------------------------------------
(* JavaScript values *)

Undef       == [t |-> "undefined"]
Bool(b)     == [t |-> "boolean", b |-> b]
Num(n)      == [t |-> "number", n |-> n]
Str(s)      == [t |-> "string", s |-> s]
Fun(f)      == [t |-> "function", f |-> f]
Obj(o)      == [t |-> "object", o |-> o]            \* o: keys -> values
Arr(a)      == [t |-> "array", a |-> a]             \* a: sequence of values
Err(m, st)  == [t |-> "error", message |-> m, stack |-> st]
Props(p)    == [t |-> "props", p |-> p]             \* p: sequence of <<key, value>>
Req(r)      == [t |-> "request", r |-> r]           \* r: field -> value
Res(i)      == [t |-> "response", i |-> i]          \* i: which response object

\* !v
Falsy(v) ==
    \/ v.t = "undefined"
    \/ v.t = "boolean" /\ ~v.b
    \/ v.t = "number" /\ v.n = 0
    \/ v.t = "string" /\ v.s = ""

Truthy(v) == ~Falsy(v)

TypeOf(v) ==
    IF v.t \in {"undefined", "boolean", "number", "string", "function"}
    THEN v.t ELSE "object"

\* v > n for a number n: anything that is not a number converts to NaN here
\* (undefined, a level name, a function) or is never produced by parse
GreaterThan(v, n) == v.t = "number" /\ v.n > n

\* obj[key], undefined when the key is absent
Get(obj, key) == IF key \in DOMAIN obj THEN obj[key] ELSE Undef

\* Object.assign({}, defaults, given): given, when an object, overrides by key
Assign(defaults, given) ==
    IF given.t = "object"
    THEN [k \in DOMAIN defaults \cup DOMAIN given.o |->
            IF k \in DOMAIN given.o THEN given.o[k] ELSE defaults[k]]
    ELSE defaults

---------------------------------------------------------------------------
(* src/lib/common.ts *)

MessageLevel_debug   == 1
MessageLevel_info    == 2
MessageLevel_warning == 3

\* MessageLevel[key]: the enum object carries the forward mapping, the
\* reverse mapping the compiler emits, and the namespace member parse
MessageLevel_lookup(key) ==
    CASE key = "debug"   -> Num(MessageLevel_debug)
      [] key = "info"    -> Num(MessageLevel_info)
      [] key = "warning" -> Num(MessageLevel_warning)
      [] key = "1"       -> Str("debug")
      [] key = "2"       -> Str("info")
      [] key = "3"       -> Str("warning")
      [] key = "parse"   -> Fun("parse")
      [] OTHER           -> Undef

parse(value) ==
    IF Falsy(value) THEN Undef
    ELSE IF TypeOf(value) = "number" THEN value
    ELSE IF TypeOf(value) = "string" THEN MessageLevel_lookup(value.s)
    ELSE IF TypeOf(value) = "boolean"
         THEN (IF value.b THEN Num(MessageLevel_debug) ELSE Undef)
    ELSE Undef

Colors == {"black", "red", "green", "yellow", "blue", "magenta", "cyan", "white", "grey"}

---------------------------------------------------------------------------
(* src/lib/ConsoleLogger.ts *)

DEFAULT_PREFIX_OPTIONS == [k \in {"name"} |-> Bool(TRUE)]

DEFAULT_FORMAT_OPTIONS ==
    [k \in {"error", "request"} |-> IF k = "error" THEN Str("stack") ELSE Str("short")]

DEFAULT_CONSOLE_OPTIONS ==
    [k \in {"prefix", "formats"} |->
        IF k = "prefix" THEN Obj(DEFAULT_PREFIX_OPTIONS) ELSE Obj(DEFAULT_FORMAT_OPTIONS)]

ConsoleStream_debug   == 1
ConsoleStream_info    == 2
ConsoleStream_warning == 3
ConsoleStream_error   == 4

\* ConsoleStream[stream]
ConsoleStream_name(stream) ==
    CASE stream = ConsoleStream_debug   -> "debug"
      [] stream = ConsoleStream_info    -> "info"
      [] stream = ConsoleStream_warning -> "warning"
      [] stream = ConsoleStream_error   -> "error"

\* `${v}` for the values that reach a template literal
TemplateStr(v) ==
    CASE v.t = "string"    -> v.s
      [] v.t = "number"    -> ToString(v.n)
      [] v.t = "boolean"   -> IF v.b THEN "true" ELSE "false"
      [] v.t = "undefined" -> "undefined"
      [] OTHER             -> "[object Object]"

\* The closure buildPrefixer returns is the pair (options, name) it captures;
\* Undef when it returns nothing.
buildPrefixer(optionsOrFlag, name) ==
    IF TypeOf(optionsOrFlag) = "boolean"
    THEN IF ~optionsOrFlag.b THEN Undef
         ELSE [t |-> "prefixer", options |-> DEFAULT_PREFIX_OPTIONS, name |-> name]
    ELSE LET options == Assign(DEFAULT_PREFIX_OPTIONS, optionsOrFlag)
         IN  IF /\ Falsy(Get(options, "time"))
                /\ Falsy(Get(options, "name"))
                /\ Falsy(Get(options, "stream"))
             THEN Undef
             ELSE [t |-> "prefixer", options |-> options, name |-> name]

\* the prefixer putting the name first
Prefixer_apply_NameFirst(prefixer, stream, service, now) ==
    LET p1 == IF Truthy(Get(prefixer.options, "name"))
              THEN "[" \o TemplateStr(prefixer.name) \o "]" ELSE ""
        p2 == IF Truthy(Get(prefixer.options, "time")) THEN p1 \o "[" \o now \o "]" ELSE p1
        p3 == IF Truthy(Get(prefixer.options, "stream"))
              THEN p2 \o "[" \o ConsoleStream_name(stream) \o "]" ELSE p2
    IN  IF Truthy(service) THEN p3 \o "[" \o TemplateStr(service) \o "]" ELSE p3

\* prefixer(stream, service); now is new Date().toISOString() at this moment
Prefixer_apply(prefixer, stream, service, now) ==
    LET p1 == IF Truthy(Get(prefixer.options, "time")) THEN "[" \o now \o "]" ELSE ""
        p2 == IF Truthy(Get(prefixer.options, "name"))
              THEN p1 \o "[" \o TemplateStr(prefixer.name) \o "]" ELSE p1
        p3 == IF Truthy(Get(prefixer.options, "stream"))
              THEN p2 \o "[" \o ConsoleStream_name(stream) \o "]" ELSE p2
    IN  IF Truthy(service) THEN p3 \o "[" \o TemplateStr(service) \o "]" ELSE p3

\* a || {} for an optional map of an options object
OrEmpty(v) == IF Truthy(v) /\ v.t = "object" THEN v.o ELSE <<>>

\* The closure buildColorizer returns: one color for every line, or the two
\* lookup tables; Undef when it returns nothing.
buildColorizer(optionsOrColor) ==
    IF Falsy(optionsOrColor) THEN Undef
    ELSE IF TypeOf(optionsOrColor) = "string"
    THEN [t |-> "colorizer", single |-> TRUE, color |-> optionsOrColor,
          severity |-> <<>>, services |-> <<>>]
    ELSE [t |-> "colorizer", single |-> FALSE, color |-> Undef,
          severity |-> OrEmpty(Get(optionsOrColor.o, "severity")),
          services |-> OrEmpty(Get(optionsOrColor.o, "services"))]

\* colors.<color>(message): the ANSI escape pair of the colors package
AnsiCode(color) ==
    CASE color = "black"   -> "30"
      [] color = "red"     -> "31"
      [] color = "green"   -> "32"
      [] color = "yellow"  -> "33"
      [] color = "blue"    -> "34"
      [] color = "magenta" -> "35"
      [] color = "cyan"    -> "36"
      [] color = "white"   -> "37"
      [] color = "grey"    -> "90"

\* applyColor leaving the message as it is for a color it does not know
applyColor_Lenient(message, color) ==
    IF Falsy(message) THEN [thrown |-> FALSE, value |-> Undef]
    ELSE IF Falsy(color) THEN [thrown |-> FALSE, value |-> message]
    ELSE IF color.t = "string" /\ color.s \in Colors
    THEN [thrown |-> FALSE,
          value |-> Str("ESC[" \o AnsiCode(color.s) \o "m" \o message.s \o "ESC[39m")]
    ELSE [thrown |-> FALSE, value |-> message]

\* Returns [thrown, value]: the decorated message, or the Error it throws.
applyColor(message, color) ==
    IF Falsy(message) THEN [thrown |-> FALSE, value |-> Undef]
    ELSE IF Falsy(color) THEN [thrown |-> FALSE, value |-> message]
    ELSE IF color.t = "string" /\ color.s \in Colors
    THEN [thrown |-> FALSE,
          value |-> Str("ESC[" \o AnsiCode(color.s) \o "m" \o message.s \o "ESC[39m")]
    ELSE [thrown |-> TRUE, value |-> Str("Invalid Color")]

\* the colorizer looking up the service before the severity
Colorizer_apply_ServiceFirst(colorizer, message, stream, service) ==
    IF colorizer.single THEN applyColor(message, colorizer.color)
    ELSE LET bySeverity == Get(colorizer.severity, ConsoleStream_name(stream))
             byService  == Get(colorizer.services, TemplateStr(service))
         IN  applyColor(message, IF Truthy(byService) THEN byService ELSE bySeverity)

\* colorizer(message, stream, service)
Colorizer_apply(colorizer, message, stream, service) ==
    IF colorizer.single THEN applyColor(message, colorizer.color)
    ELSE LET bySeverity == Get(colorizer.severity, ConsoleStream_name(stream))
             byService  == Get(colorizer.services, TemplateStr(service))
         IN  applyColor(message, IF Truthy(bySeverity) THEN bySeverity ELSE byService)

\* new ConsoleLogger(name, options)
ConsoleLogger(name, options) ==
    LET cOptions == IF TypeOf(options) = "boolean" THEN DEFAULT_CONSOLE_OPTIONS
                    ELSE Assign(DEFAULT_CONSOLE_OPTIONS, options)
    IN  [t         |-> "ConsoleLogger",
         name      |-> name,
         prefixer  |-> buildPrefixer(Get(cOptions, "prefix"), name),
         colorizer |-> buildColorizer(Get(cOptions, "color")),
         fOptions  |-> Assign(DEFAULT_FORMAT_OPTIONS, Get(cOptions, "formats"))]

\* console.log / console.info / console.warn / console.error
ConsoleFn(stream) ==
    CASE stream = ConsoleStream_debug   -> "log"
      [] stream = ConsoleStream_info    -> "info"
      [] stream = ConsoleStream_warning -> "warn"
      [] stream = ConsoleStream_error   -> "error"

\* What a sink call did: the lines it printed, the records it sent, the
\* callbacks it registered, and the Error it threw (Undef when it returned).
Nothing == [lines |-> <<>>, records |-> <<>>, registered |-> <<>>, thrown |-> Undef]

Printed(fn, text) == [Nothing EXCEPT !.lines = <<[fn |-> fn, text |-> text]>>]
Sent(record)      == [Nothing EXCEPT !.records = <<record>>]
Thrown(message)   == [Nothing EXCEPT !.thrown = message]

\* ConsoleLogger.logToConsole(message, stream, service)
logToConsole(this, message, stream, service, now) ==
    IF Falsy(message) \/ stream = 0 THEN Nothing
    ELSE LET prefixed ==
                 IF Truthy(this.prefixer)
                 THEN Str(Prefixer_apply(this.prefixer, stream, service, now)
                          \o ": " \o TemplateStr(message))
                 ELSE message
             colored ==
                 IF Truthy(this.colorizer)
                 THEN Colorizer_apply(this.colorizer, prefixed, stream, service)
                 ELSE [thrown |-> FALSE, value |-> prefixed]
         IN  IF colored.thrown THEN Thrown(colored.value)
             ELSE Printed(ConsoleFn(stream), TemplateStr(colored.value))

ConsoleLogger_debug(this, message, now) ==
    logToConsole(this, message, ConsoleStream_debug, Undef, now)

ConsoleLogger_info(this, message, now) ==
    logToConsole(this, message, ConsoleStream_info, Undef, now)

ConsoleLogger_warn(this, message, now) ==
    logToConsole(this, message, ConsoleStream_warning, Undef, now)

ConsoleLogger_error(this, error, now) ==
    LET message == IF Get(this.fOptions, "error") = Str("stack") /\ Truthy(error.stack)
                   THEN error.stack
                   ELSE IF Truthy(error.message) THEN error.message
                   ELSE Str("Unknown error")
    IN  logToConsole(this, message, ConsoleStream_error, Undef, now)

\* JSON.stringify of a flat property bag
RECURSIVE JSON_members(_)
JSON_value(v) ==
    CASE v.t = "string" -> "\"" \o v.s \o "\""
      [] v.t = "number" -> ToString(v.n)
      [] v.t = "boolean" -> IF v.b THEN "true" ELSE "false"
      [] OTHER -> "null"
JSON_members(p) ==
    IF p = <<>> THEN ""
    ELSE "\"" \o p[1][1] \o "\":" \o JSON_value(p[1][2])
         \o (IF Len(p) > 1 THEN "," ELSE "") \o JSON_members(Tail(p))
JSON_stringify(properties) == "{" \o JSON_members(properties.p) \o "}"

ConsoleLogger_log(this, event, properties, now) ==
    LET message == IF Truthy(properties)
                   THEN Str(TemplateStr(event) \o ": " \o JSON_stringify(properties))
                   ELSE event
    IN  logToConsole(this, message, ConsoleStream_info, Undef, now)

ConsoleLogger_track(this, metric, value, now) ==
    logToConsole(this, Str("[" \o TemplateStr(metric) \o "=" \o TemplateStr(value) \o "]"),
                 ConsoleStream_info, Undef, now)

\* ConsoleLogger.trace naming the service in the message
ConsoleLogger_trace_Named(this, service, command, duration, success, now) ==
    LET message ==
            IF success
            THEN Str(TemplateStr(service) \o " executed [" \o TemplateStr(command)
                     \o "] in " \o TemplateStr(duration) \o " ms")
            ELSE Str(TemplateStr(service) \o " failed to execute ["
                     \o TemplateStr(command) \o "] in " \o TemplateStr(duration) \o " ms")
    IN  logToConsole(this, message, ConsoleStream_info, service, now)

ConsoleLogger_trace(this, service, command, duration, success, now) ==
    LET message ==
            IF success
            THEN Str("executed [" \o TemplateStr(command) \o "] in "
                     \o TemplateStr(duration) \o " ms")
            ELSE Str("failed to execute [" \o TemplateStr(command) \o "] in "
                     \o TemplateStr(duration) \o " ms")
    IN  logToConsole(this, message, ConsoleStream_info, service, now)

\* a || b
Or(a, b) == IF Truthy(a) THEN a ELSE b

\* a && b
And(a, b) == IF Truthy(a) THEN b ELSE a

\* The fields of the response objects the model uses
statusCode(response)    == Num(200)
contentLength(response) == Num(42)

\* buildRequestLine taking the remote address of the connection first
buildRequestLine_RemoteFirst(request, response, duration, format) ==
    IF Falsy(request) THEN Undef
    ELSE LET connection == Get(request.r, "connection")
             address == Or(And(connection, IF connection.t = "object"
                                           THEN Get(connection.o, "remoteAddress")
                                           ELSE Undef),
                           Get(request.r, "ip"))
             method  == Get(request.r, "method")
             url     == Or(Get(request.r, "path"), Get(request.r, "url"))
             version == Get(request.r, "httpVersion")
             status  == statusCode(response)
             length  == contentLength(response)
         IN  IF format = Str("short")
             THEN Str(TemplateStr(address) \o " - " \o TemplateStr(method) \o " "
                      \o TemplateStr(url) \o " HTTP/" \o TemplateStr(version) \o " "
                      \o TemplateStr(status) \o " " \o TemplateStr(length) \o " - "
                      \o TemplateStr(duration) \o " ms")
             ELSE IF format = Str("dev")
             THEN Str(TemplateStr(method) \o " " \o TemplateStr(url) \o " "
                      \o TemplateStr(status) \o " " \o TemplateStr(duration)
                      \o " ms - " \o TemplateStr(length))
             ELSE Undef

buildRequestLine(request, response, duration, format) ==
    IF Falsy(request) THEN Undef
    ELSE LET connection == Get(request.r, "connection")
             address == Or(Get(request.r, "ip"),
                           And(connection, IF connection.t = "object"
                                           THEN Get(connection.o, "remoteAddress")
                                           ELSE Undef))
             method  == Get(request.r, "method")
             url     == Or(Get(request.r, "path"), Get(request.r, "url"))
             version == Get(request.r, "httpVersion")
             status  == statusCode(response)
             length  == contentLength(response)
         IN  IF format = Str("short")
             THEN Str(TemplateStr(address) \o " - " \o TemplateStr(method) \o " "
                      \o TemplateStr(url) \o " HTTP/" \o TemplateStr(version) \o " "
                      \o TemplateStr(status) \o " " \o TemplateStr(length) \o " - "
                      \o TemplateStr(duration) \o " ms")
             ELSE IF format = Str("dev")
             THEN Str(TemplateStr(method) \o " " \o TemplateStr(url) \o " "
                      \o TemplateStr(status) \o " " \o TemplateStr(duration)
                      \o " ms - " \o TemplateStr(length))
             ELSE Undef

\* ConsoleLogger.request printing the line during the call
ConsoleLogger_request_Eager(this, request, response) ==
    logToConsole(this,
                 buildRequestLine(request, response, Num(0), Get(this.fOptions, "request")),
                 ConsoleStream_info, Undef, "2016-06-01T10:00:00.000Z")

\* ConsoleLogger.request: prints nothing, hands on-finished the callback,
\* which is the closure over (this, request, response)
ConsoleLogger_request(this, request, response) ==
    [Nothing EXCEPT !.registered =
        <<[this |-> this, request |-> request, response |-> response]>>]

\* the callback of ConsoleLogger.request, run by on-finished
RequestCallback(cb, duration, now) ==
    LET line == buildRequestLine(cb.request, cb.response, duration,
                                 Get(cb.this.fOptions, "request"))
    IN  logToConsole(cb.this, line, ConsoleStream_info, Undef, now)

---------------------------------------------------------------------------
(* src/index.ts: the Logger *)

LogKeys == {"messages", "errors", "events", "metrics", "services", "requests"}

DEFAULT_LOGGING_OPTIONS ==
    [k \in LogKeys |-> IF k = "messages" THEN Num(MessageLevel_debug) ELSE Bool(TRUE)]

\* ContractsModule.SeverityLevel of the telemetry client
SeverityLevel_Verbose     == 0
SeverityLevel_Information == 1
SeverityLevel_Warning     == 2
\* ApplicationInsights.getClient(key).  The client is code of the library,
\* not of the repository: its calls either are all taken or all raise (the
\* sink is down), and the key tells which of the two clients it is
DownKey == Str("down")
TelemetryFailure == Str("telemetry failure")
getClient(key) == [t |-> "Client", key |-> key]

\* a call of a method of the client: the record it is handed, or its Error
Client_call(client, call) ==
    IF client.key = DownKey THEN Thrown(TelemetryFailure) ELSE call


\* validateTelemetryProvider accepting every provider that is given
validateTelemetryProvider_AnyProvider(options) ==
    LET provider == Get(options.o, "provider")
    IN  IF Falsy(provider) THEN Str("Telemetry provider is undefined")
        ELSE Undef

validateTelemetryProvider(options) ==
    LET provider == Get(options.o, "provider")
    IN  IF Falsy(provider) THEN Str("Telemetry provider is undefined")
        ELSE IF provider # Str("appinsights")
        THEN Str("Telemetry provider {" \o TemplateStr(provider) \o "} is not supported")
        ELSE Undef

\* new Logger(options): [thrown, value], the Error thrown or the object built
Logger(options, id) ==
    LET name     == Get(options, "name")
        merged   == Assign(DEFAULT_LOGGING_OPTIONS, Get(options, "log"))
        resolved == [merged EXCEPT !["messages"] = parse(merged["messages"])]
        console  == Get(options, "console")
        telemetry == Get(options, "telemetry")
        sources  == Get(options, "sources")
        invalid  == IF Truthy(telemetry) THEN validateTelemetryProvider(telemetry)
                    ELSE Undef
    IN  IF invalid # Undef THEN [thrown |-> invalid, value |-> Undef]
        ELSE IF Truthy(sources) /\ sources.t # "array"
        THEN [thrown |-> Str("sources option must be an array"), value |-> Undef]
        ELSE [thrown |-> Undef,
              value |->
                [t         |-> "Logger",
                 id        |-> id,
                 name      |-> name,
                 options   |-> resolved,
                 cClient   |-> IF Truthy(console) THEN ConsoleLogger(name, console)
                               ELSE Undef,
                 tClient   |-> IF Truthy(telemetry)
                               THEN getClient(Get(telemetry.o, "key"))
                               ELSE Undef,
                 whitelist |-> IF Truthy(sources)
                               THEN [t |-> "Set",
                                     has |-> {sources.a[i] : i \in 1..Len(sources.a)}]
                               ELSE Undef]]

\* the two sinks of a method with the Error of the telemetry call caught
Forward_Catching(this, console, telemetry) ==
    LET c == IF Truthy(this.cClient) THEN console ELSE Nothing
        r == IF Truthy(this.tClient) THEN Client_call(this.tClient, telemetry) ELSE Nothing
    IN  IF c.thrown # Undef THEN c
        ELSE [c EXCEPT !.records = r.records]

\* console first, then telemetry: an Error thrown by the console call ends
\* the method before the telemetry call; no method has a try block, so an
\* Error thrown by the telemetry call ends the method as well, after the
\* console call has been made
Forward(this, console, telemetry) ==
    LET c == IF Truthy(this.cClient) THEN console ELSE Nothing
        r == IF Truthy(this.tClient) THEN Client_call(this.tClient, telemetry) ELSE Nothing
    IN  IF c.thrown # Undef THEN c
        ELSE [c EXCEPT !.records = r.records, !.thrown = r.thrown]

\* source && this.whitelist && !this.whitelist.has(source)
NotListed(this, source) ==
    Truthy(source) /\ Truthy(this.whitelist) /\ source \notin this.whitelist.has

\* the properties object of a trackTrace call
TraceProperties(this, source) ==
    IF Truthy(source) THEN << <<"name", this.name>>, <<"source", source>> >>
    ELSE << <<"name", this.name>> >>

trackTrace(message, severity, properties) ==
    Sent([op |-> "trackTrace", args |-> <<message, Num(severity), Props(properties)>>])

\* Logger.debug calling the telemetry client before the console sink
Logger_debug_TelemetryFirst(this, message, source, now) ==
    IF GreaterThan(this.options["messages"], MessageLevel_debug) THEN Nothing
    ELSE IF Falsy(message) \/ TypeOf(message) # "string" THEN Nothing
    ELSE IF NotListed(this, source) THEN Nothing
    ELSE LET r == IF Truthy(this.tClient)
                  THEN Client_call(this.tClient,
                            trackTrace(message, SeverityLevel_Verbose,
                                       TraceProperties(this, source)))
                  ELSE Nothing
             c == IF Truthy(this.cClient)
                  THEN ConsoleLogger_debug(this.cClient, message, now)
                  ELSE Nothing
         IN  IF r.thrown # Undef THEN r
             ELSE [c EXCEPT !.records = r.records]

Logger_debug(this, message, source, now) ==
    IF GreaterThan(this.options["messages"], MessageLevel_debug) THEN Nothing
    ELSE IF Falsy(message) \/ TypeOf(message) # "string" THEN Nothing
    ELSE IF NotListed(this, source) THEN Nothing
    ELSE Forward(this,
            ConsoleLogger_debug(this.cClient, message, now),
            trackTrace(message, SeverityLevel_Verbose, TraceProperties(this, source)))

\* Logger.info with the threshold comparison off by one
Logger_info_OffByOne(this, message, source, now) ==
    IF \/ Falsy(this.options["messages"])
       \/ GreaterThan(this.options["messages"], MessageLevel_info - 1) THEN Nothing
    ELSE IF Falsy(message) \/ TypeOf(message) # "string" THEN Nothing
    ELSE IF NotListed(this, source) THEN Nothing
    ELSE Forward(this,
            ConsoleLogger_info(this.cClient, message, now),
            trackTrace(message, SeverityLevel_Information, TraceProperties(this, source)))

Logger_info(this, message, source, now) ==
    IF \/ Falsy(this.options["messages"])
       \/ GreaterThan(this.options["messages"], MessageLevel_info) THEN Nothing
    ELSE IF Falsy(message) \/ TypeOf(message) # "string" THEN Nothing
    ELSE IF NotListed(this, source) THEN Nothing
    ELSE Forward(this,
            ConsoleLogger_info(this.cClient, message, now),
            trackTrace(message, SeverityLevel_Information, TraceProperties(this, source)))

\* Logger.warn without the test of the allow-list
Logger_warn_Unfiltered(this, message, source, now) ==
    IF \/ Falsy(this.options["messages"])
       \/ GreaterThan(this.options["messages"], MessageLevel_warning) THEN Nothing
    ELSE IF Falsy(message) \/ TypeOf(message) # "string" THEN Nothing
    ELSE Forward(this,
            ConsoleLogger_warn(this.cClient, message, now),
            trackTrace(message, SeverityLevel_Warning, TraceProperties(this, source)))

Logger_warn(this, message, source, now) ==
    IF \/ Falsy(this.options["messages"])
       \/ GreaterThan(this.options["messages"], MessageLevel_warning) THEN Nothing
    ELSE IF Falsy(message) \/ TypeOf(message) # "string" THEN Nothing
    ELSE IF NotListed(this, source) THEN Nothing
    ELSE Forward(this,
            ConsoleLogger_warn(this.cClient, message, now),
            trackTrace(message, SeverityLevel_Warning, TraceProperties(this, source)))

\* Logger.error made to pass the message threshold as well
Logger_error_Thresholded(this, error, now) ==
    IF \/ Falsy(this.options["messages"])
       \/ Falsy(this.options["errors"]) \/ Falsy(error) \/ error.t # "error" THEN Nothing
    ELSE Forward(this,
            ConsoleLogger_error(this.cClient, error, now),
            Sent([op |-> "trackException", args |-> <<error>>]))

Logger_error(this, error, now) ==
    IF Falsy(this.options["errors"]) \/ Falsy(error) \/ error.t # "error" THEN Nothing
    ELSE Forward(this,
            ConsoleLogger_error(this.cClient, error, now),
            Sent([op |-> "trackException", args |-> <<error>>]))

\* Logger.log with the telemetry call inside the test of the console sink
Logger_log_Nested(this, event, properties, now) ==
    IF Falsy(this.options["events"]) \/ TypeOf(event) # "string" THEN Nothing
    ELSE IF Falsy(this.cClient) THEN Nothing
    ELSE Forward(this,
            ConsoleLogger_log(this.cClient, event, properties, now),
            Sent([op |-> "trackEvent", args |-> <<event, properties>>]))

Logger_log(this, event, properties, now) ==
    IF Falsy(this.options["events"]) \/ TypeOf(event) # "string" THEN Nothing
    ELSE Forward(this,
            ConsoleLogger_log(this.cClient, event, properties, now),
            Sent([op |-> "trackEvent", args |-> <<event, properties>>]))

\* Logger.track without the test of options.metrics
Logger_track_Unflagged(this, metric, value, now) ==
    IF \/ Falsy(metric)
       \/ TypeOf(value) # "number" THEN Nothing
    ELSE Forward(this,
            ConsoleLogger_track(this.cClient, metric, value, now),
            Sent([op |-> "trackMetric", args |-> <<metric, value>>]))

Logger_track(this, metric, value, now) ==
    IF \/ Falsy(this.options["metrics"])
       \/ Falsy(metric)
       \/ TypeOf(value) # "number" THEN Nothing
    ELSE Forward(this,
            ConsoleLogger_track(this.cClient, metric, value, now),
            Sent([op |-> "trackMetric", args |-> <<metric, value>>]))

\* Logger.trace without the test of the allow-list
Logger_trace_Unfiltered(this, source, command, duration, success, now) ==
    IF Falsy(this.options["services"]) THEN Nothing
    ELSE IF \/ TypeOf(source) # "string"
            \/ TypeOf(command) # "string"
            \/ TypeOf(duration) # "number" THEN Nothing
    ELSE LET ok == IF TypeOf(success) = "boolean" THEN success.b ELSE TRUE
         IN  Forward(this,
                ConsoleLogger_trace(this.cClient, source, command, duration, ok, now),
                Sent([op |-> "trackDependency",
                      args |-> <<source, command, duration, Bool(ok)>>]))

Logger_trace(this, source, command, duration, success, now) ==
    IF \/ Falsy(this.options["services"])
       \/ (Truthy(this.whitelist) /\ source \notin this.whitelist.has) THEN Nothing
    ELSE IF \/ TypeOf(source) # "string"
            \/ TypeOf(command) # "string"
            \/ TypeOf(duration) # "number" THEN Nothing
    ELSE LET ok == IF TypeOf(success) = "boolean" THEN success.b ELSE TRUE
         IN  Forward(this,
                ConsoleLogger_trace(this.cClient, source, command, duration, ok, now),
                Sent([op |-> "trackDependency",
                      args |-> <<source, command, duration, Bool(ok)>>]))

\* Logger.request without the test of the request
Logger_request_AnyRequest(this, request, response) ==
    IF Falsy(this.options["requests"]) \/ Falsy(response) THEN Nothing
    ELSE Forward(this,
            ConsoleLogger_request(this.cClient, request, response),
            Sent([op |-> "trackRequest", args |-> <<request, response>>]))

\* Logger.request handing the client nothing while the call runs
Logger_request_Deferred(this, request, response) ==
    IF Falsy(this.options["requests"]) \/ Falsy(request) \/ Falsy(response) THEN Nothing
    ELSE [Forward(this,
            ConsoleLogger_request(this.cClient, request, response),
            Sent([op |-> "trackRequest", args |-> <<request, response>>]))
          EXCEPT !.records = <<>>]

Logger_request(this, request, response) ==
    IF Falsy(this.options["requests"]) \/ Falsy(request) \/ Falsy(response) THEN Nothing
    ELSE Forward(this,
            ConsoleLogger_request(this.cClient, request, response),
            Sent([op |-> "trackRequest", args |-> <<request, response>>]))

\* what the telemetry client is asked by sendPendingData(callback)
sendPendingData(callback) ==
    Sent([op |-> "sendPendingData", args |-> <<callback>>])

\* callback(): a function is called, calling anything else is a TypeError
NotAFunction == Str("callback is not a function")

\* Logger.flush calling the callback itself after delegating to the client
Logger_flush_Eager(this, callback) ==
    IF Truthy(this.tClient)
    THEN [effect |-> Client_call(this.tClient, sendPendingData(callback)),
          called |-> <<callback>>]
    ELSE IF TypeOf(callback) = "function"
         THEN [effect |-> Nothing, called |-> <<callback>>]
         ELSE [effect |-> Thrown(NotAFunction), called |-> <<>>]

\* Logger.flush: effect is what the sinks get, called the callbacks the
\* method itself has called when it returns
Logger_flush(this, callback) ==
    IF Truthy(this.tClient)
    THEN [effect |-> Client_call(this.tClient, sendPendingData(callback)),
          called |-> <<>>]
    ELSE IF TypeOf(callback) = "function"
         THEN [effect |-> Nothing, called |-> <<callback>>]
         ELSE [effect |-> Thrown(NotAFunction), called |-> <<>>]

---------------------------------------------------------------------------
(* Inputs *)

LoggerName == Str("dev-logger")

\* values a key of the log option object is given
LogValues(k) ==
    IF k = "messages"
    THEN {Bool(TRUE), Bool(FALSE),
          Num(MessageLevel_debug), Num(MessageLevel_info), Num(MessageLevel_warning),
          Str("debug"), Str("info"), Str("warning"), Str("error"),
          Str("Debug"), Str("1"), Str("parse")}
    ELSE {Bool(TRUE), Bool(FALSE)}

\* log option objects: empty, or one key present
LogObjects ==
    {<<>>} \cup UNION {{[x \in {k} |-> v] : v \in LogValues(k)} : k \in LogKeys}

Object1(k, v)         == Obj([x \in {k} |-> v])
Object2(k1, v1, k2, v2) == Obj([x \in {k1, k2} |-> IF x = k1 THEN v1 ELSE v2])

\* the default console; one color, not a named one and a named one; prefix
\* flags with colors by severity and by service, one of them not a named
\* color; no prefix and the dev request format
ConsoleValues ==
    {Bool(TRUE),
     Object1("color", Str("purple")),
     Object1("color", Str("green")),
     Object2("prefix", Obj([x \in {"time", "stream"} |-> Bool(TRUE)]),
             "color", Object2("severity", Object1("warning", Str("yellow")),
                              "services", Object1("dev-db", Str("magenta")))),
     Object2("prefix", Obj([x \in {"time", "name", "stream"} |-> Bool(TRUE)]),
             "color", Object2("severity", Object2("info", Str("cyan"),
                                                  "error", Str("purple")),
                              "services", Object1("dev-db", Str("magenta")))),
     Object2("prefix", Bool(FALSE), "formats", Object1("request", Str("dev"))),
     Object1("prefix", Object1("name", Bool(FALSE))),
     Object1("prefix", Object2("name", Bool(FALSE), "stream", Bool(TRUE)))}

TelemetryValues ==
    {Object2("provider", Str("appinsights"), "key", Str("k")),
     Object2("provider", Str("other"), "key", Str("k")),
     Object1("key", Str("k"))}

\* an array of strings, an array of a number, and a string
StringLists   == {Arr(<<Str("dev-db")>>)}
SourcesValues == StringLists \cup {Arr(<<Num(5)>>), Str("dev-db")}

\* an options object: name, and any of log, console, telemetry, sources
OptionsOf(log, console, telemetry, sources) ==
    [k \in {"name"} \cup {x \in {"log", "console", "telemetry", "sources"} :
                            CASE x = "log" -> log # Undef
                              [] x = "console" -> console # Undef
                              [] x = "telemetry" -> telemetry # Undef
                              [] x = "sources" -> sources # Undef} |->
        CASE k = "name" -> LoggerName
          [] k = "log" -> log
          [] k = "console" -> console
          [] k = "telemetry" -> telemetry
          [] k = "sources" -> sources]

\* the telemetry and sources values the constructor accepts
Accepted(telemetry, sources) ==
    /\ telemetry \in {Undef, Object2("provider", Str("appinsights"), "key", Str("k"))}
    /\ sources = Undef \/ sources.t = "array"

\* every log object with no console or the default one; every console object
\* with no log object; every telemetry and sources value, accepted or not
OptionsValues ==
    {OptionsOf(log, console, telemetry, sources) :
        log \in {Obj(f) : f \in LogObjects},
        console \in {Undef, Bool(TRUE)},
        telemetry \in {t \in {Undef} \cup TelemetryValues : Accepted(t, Undef)},
        sources \in {Undef} \cup StringLists}
    \cup
    {OptionsOf(Undef, console, telemetry, sources) :
        console \in ConsoleValues \ {Bool(TRUE)},
        telemetry \in {t \in {Undef} \cup TelemetryValues : Accepted(t, Undef)},
        sources \in {Undef} \cup StringLists}
    \cup
    {OptionsOf(Undef, console, telemetry, sources) :
        console \in {Undef, Bool(TRUE), Bool(FALSE)},
        telemetry \in {Undef} \cup TelemetryValues,
        sources \in {Undef} \cup SourcesValues}

\* configure does not read its argument once an instance is stored
LateOptionsValues ==
    {OptionsOf(Undef, console, Undef, Undef) : console \in {Undef, Bool(TRUE)}}

Timestamps == {"2016-06-01T10:00:00.000Z"}

Messages   == {Str("x"), Str(""), Num(5)}
Sources    == {Undef, Str("dev-db"), Str("other")}
\* the argument lists of debug, info and warn: a source goes with a proper
\* message
MessageArgs == {a \in Messages \X Sources : a[1] = Str("x") \/ a[2] = Undef}
Errors     == {Err(Str("boom"), Str("Error: boom at f")), Str("boom"), Undef}
Events     == {Str("started"), Str(""), Num(5)}
Properties == {Undef, Props(<< <<"a", Num(1)>> >>)}
\* the argument lists of log: properties go with a proper event
LogArgs    == {a \in Events \X Properties : a[2] = Undef \/ a[1] = Str("started")}
Metrics    == {Str("m"), Str("")}
Values     == {Num(5), Str("5")}
\* the argument lists of track: at most one argument is rejected
TrackArgs  == {a \in Metrics \X Values : a[1] = Str("m") \/ a[2] = Num(5)}
Services   == {Str("dev-db"), Str("other"), Num(5)}
Commands   == {Str("select"), Num(5)}
Durations  == {Num(15), Str("15")}
Successes  == {Bool(TRUE), Bool(FALSE), Undef}
\* the argument lists of trace: every source and success with a proper
\* command and duration, and one list for each argument not of its type
TraceArgs  ==
    {a \in Services \X Commands \X Durations \X Successes :
        \/ a[1].t = "string" /\ a[2].t = "string" /\ a[3].t = "number"
        \/ /\ Cardinality({i \in 1..3 : a[i] \in {Num(5), Str("15")}}) = 1
           /\ a[1] # Str("other") /\ a[4] = Bool(TRUE)}
\* no request; a request with ip, path and a connection; a request with
\* url and a connection only
Requests   == {Undef,
               Req([k \in {"ip", "method", "path", "httpVersion", "connection"} |->
                    CASE k = "ip" -> Str("10.0.0.1")
                      [] k = "method" -> Str("GET")
                      [] k = "path" -> Str("/a")
                      [] k = "httpVersion" -> Str("1.1")
                      [] k = "connection" -> Object1("remoteAddress", Str("10.0.0.2"))]),
               Req([k \in {"method", "url", "httpVersion", "connection"} |->
                    CASE k = "method" -> Str("GET")
                      [] k = "url" -> Str("/b")
                      [] k = "httpVersion" -> Str("1.1")
                      [] k = "connection" -> Object1("remoteAddress", Str("10.0.0.2"))])}
ResIds     == {1}
Responses  == {Undef} \cup {Res(i) : i \in ResIds}
\* the argument lists of request: at most one argument is missing
RequestArgs == {a \in Requests \X Responses : a[1] # Undef \/ a[2] # Undef}
Elapsed    == {Num(15)}
\* what flush is given: a function, or nothing
Callbacks  == {Fun("done"), Undef}

---------------------------------------------------------------------------
(* State machine *)

Returned(op, v) == [op |-> op, kind |-> "return", value |-> v]
Threw(op, v)    == [op |-> op, kind |-> "throw", value |-> v]

NotConfigured == Str("Global logger has not yet been configured")
AlreadyConfigured == Str("Global logger has already been configured")

Init ==
    /\ instance = Undef
    /\ nextId = 1
    /\ cout = <<>>
    /\ tout = <<>>
    /\ finished = [i \in ResIds |-> FALSE]
    /\ listeners = [i \in ResIds |-> <<>>]
    /\ immediates = <<>>
    /\ result = Returned("none", Undef)

\* callbacks registered and not yet run
RECURSIVE Queued(_)
Queued(ids) ==
    IF ids = {} THEN 0
    ELSE LET i == CHOOSE i \in ids : TRUE IN Len(listeners[i]) + Queued(ids \ {i})

Pending == Len(immediates) + Queued(ResIds)

\* the sinks have room for what one more call produces
Room == Len(cout) + Pending < MaxOut /\ Len(tout) < MaxOut

\* onFinished(response, callback): a finished response has the callback
\* deferred with setImmediate, an unfinished one has it queued on the response
OnFinished(registered) ==
    IF registered = <<>> THEN UNCHANGED <<listeners, immediates>>
    ELSE LET cb == registered[1]
         IN  IF finished[cb.response.i]
             THEN /\ immediates' = Append(immediates, cb)
                  /\ UNCHANGED listeners
             ELSE /\ listeners' = [listeners EXCEPT ![cb.response.i] = Append(@, cb)]
                  /\ UNCHANGED immediates

\* a Logger method whose lines and records go in front of the earlier ones
Do_Prepending(op, e) ==
    /\ cout' = e.lines \o cout
    /\ tout' = e.records \o tout
    /\ OnFinished(e.registered)
    /\ result' = IF e.thrown # Undef THEN Threw(op, e.thrown) ELSE Returned(op, Undef)
    /\ UNCHANGED <<instance, nextId, finished>>

\* the state after a Logger method has done what e says
Do(op, e) ==
    /\ cout' = cout \o e.lines
    /\ tout' = tout \o e.records
    /\ OnFinished(e.registered)
    /\ result' = IF e.thrown # Undef THEN Threw(op, e.thrown) ELSE Returned(op, Undef)
    /\ UNCHANGED <<instance, nextId, finished>>

Fail(op, message) ==
    /\ result' = Threw(op, message)
    /\ UNCHANGED <<instance, nextId, cout, tout, finished, listeners, immediates>>

\* the outcome of configure, which also keeps the options it was called with
ConfigureResult(options, outcome) ==
    [op |-> outcome.op, kind |-> outcome.kind, value |-> outcome.value,
     options |-> options]

\* configure without the test of the stored instance
configure_Overwriting(options) ==
    LET new == Logger(options, nextId)
    IN  IF new.thrown # Undef
        THEN /\ result' = ConfigureResult(options, Threw("configure", new.thrown))
             /\ UNCHANGED <<instance, nextId, cout, tout, finished, listeners,
                            immediates>>
        ELSE /\ instance' = new.value
             /\ nextId' = nextId + 1
             /\ result' = ConfigureResult(options, Returned("configure", new.value))
             /\ UNCHANGED <<cout, tout, finished, listeners, immediates>>

configure(options) ==
    IF Truthy(instance)
    THEN /\ result' = ConfigureResult(options, Threw("configure", AlreadyConfigured))
         /\ UNCHANGED <<instance, nextId, cout, tout, finished, listeners, immediates>>
    ELSE LET new == Logger(options, nextId)
         IN  IF new.thrown # Undef
             THEN /\ result' = ConfigureResult(options, Threw("configure", new.thrown))
                  /\ UNCHANGED <<instance, nextId, cout, tout, finished, listeners,
                                 immediates>>
             ELSE /\ instance' = new.value
                  /\ nextId' = nextId + 1
                  /\ result' = ConfigureResult(options, Returned("configure", new.value))
                  /\ UNCHANGED <<cout, tout, finished, listeners, immediates>>

\* getInstance without the test of the stored instance
getInstance_Unchecked ==
    /\ result' = Returned("getInstance", instance)
    /\ UNCHANGED <<instance, nextId, cout, tout, finished, listeners, immediates>>

getInstance ==
    IF Falsy(instance) THEN Fail("getInstance", NotConfigured)
    ELSE /\ result' = Returned("getInstance", instance)
         /\ UNCHANGED <<instance, nextId, cout, tout, finished, listeners, immediates>>

debug(message, source) ==
    IF Falsy(instance) THEN Fail("debug", NotConfigured)
    ELSE \E now \in Timestamps : Do("debug", Logger_debug(instance, message, source, now))

info(message, source) ==
    IF Falsy(instance) THEN Fail("info", NotConfigured)
    ELSE \E now \in Timestamps : Do("info", Logger_info(instance, message, source, now))

warn(message, source) ==
    IF Falsy(instance) THEN Fail("warn", NotConfigured)
    ELSE \E now \in Timestamps : Do("warn", Logger_warn(instance, message, source, now))

error(err) ==
    IF Falsy(instance) THEN Fail("error", NotConfigured)
    ELSE \E now \in Timestamps : Do("error", Logger_error(instance, err, now))

log(event, properties) ==
    IF Falsy(instance) THEN Fail("log", NotConfigured)
    ELSE \E now \in Timestamps : Do("log", Logger_log(instance, event, properties, now))

\* the pass-through track returning quietly when no instance is stored
track_Quiet(metric, value) ==
    IF Falsy(instance)
    THEN /\ result' = Returned("track", Undef)
         /\ UNCHANGED <<instance, nextId, cout, tout, finished, listeners, immediates>>
    ELSE \E now \in Timestamps : Do("track", Logger_track(instance, metric, value, now))

track(metric, value) ==
    IF Falsy(instance) THEN Fail("track", NotConfigured)
    ELSE \E now \in Timestamps : Do("track", Logger_track(instance, metric, value, now))

trace(source, command, duration, success) ==
    IF Falsy(instance) THEN Fail("trace", NotConfigured)
    ELSE \E now \in Timestamps :
            Do("trace", Logger_trace(instance, source, command, duration, success, now))

request(req, res) ==
    IF Falsy(instance) THEN Fail("request", NotConfigured)
    ELSE Do("request", Logger_request(instance, req, res))

\* the outcome of flush, which also keeps the callbacks the method called
FlushResult(outcome, called) ==
    [op |-> outcome.op, kind |-> outcome.kind, value |-> outcome.value,
     called |-> called]

\* flush letting go of the telemetry client it has flushed
flush_Releasing(callback) ==
    /\ Truthy(instance)
    /\ LET f == Logger_flush(instance, callback)
       IN  /\ tout' = tout \o f.effect.records
           /\ result' = FlushResult(IF f.effect.thrown # Undef
                                    THEN Threw("flush", f.effect.thrown)
                                    ELSE Returned("flush", Undef), f.called)
    /\ instance' = [instance EXCEPT !.tClient = Undef]
    /\ UNCHANGED <<nextId, cout, finished, listeners, immediates>>

\* flush is a method of the Logger only: it is called on the stored instance,
\* which getInstance or configure has returned
flush(callback) ==
    /\ Truthy(instance)
    /\ LET f == Logger_flush(instance, callback)
       IN  /\ tout' = tout \o f.effect.records
           /\ result' = FlushResult(IF f.effect.thrown # Undef
                                    THEN Threw("flush", f.effect.thrown)
                                    ELSE Returned("flush", Undef), f.called)
    /\ UNCHANGED <<instance, nextId, cout, finished, listeners, immediates>>

\* on-finished runs the callbacks in the order given; an Error thrown by one
\* of them leaves the later ones unrun
RECURSIVE RunCallbacks(_, _, _)
RunCallbacks(queue, duration, now) ==
    IF queue = <<>> THEN Nothing
    ELSE LET first == RequestCallback(queue[1], duration, now)
         IN  IF first.thrown # Undef THEN first
             ELSE LET rest == RunCallbacks(Tail(queue), duration, now)
                  IN  [rest EXCEPT !.lines = first.lines \o rest.lines]

\* the response finishes (completed or errored): its queued callbacks run
ResponseFinished(i) ==
    /\ ~finished[i]
    /\ finished' = [finished EXCEPT ![i] = TRUE]
    /\ listeners' = [listeners EXCEPT ![i] = <<>>]
    /\ \E now \in Timestamps, duration \in Elapsed :
         LET e == RunCallbacks(listeners[i], duration, now)
         IN  /\ cout' = cout \o e.lines
             /\ result' = IF e.thrown # Undef THEN Threw("finished", e.thrown)
                          ELSE Returned("finished", Undef)
    /\ UNCHANGED <<instance, nextId, tout, immediates>>

\* the event loop runs a callback deferred with setImmediate
RunImmediate ==
    /\ immediates # <<>>
    /\ immediates' = Tail(immediates)
    /\ \E now \in Timestamps, duration \in Elapsed :
         LET e == RequestCallback(immediates[1], duration, now)
         IN  /\ cout' = cout \o e.lines
             /\ result' = IF e.thrown # Undef THEN Threw("immediate", e.thrown)
                          ELSE Returned("immediate", Undef)
    /\ UNCHANGED <<instance, nextId, tout, finished, listeners>>

Next ==
    \/ \E options \in (IF Truthy(instance) THEN LateOptionsValues ELSE OptionsValues) :
            configure(options)
    \/ getInstance
    \/ Room /\ \E a \in MessageArgs : debug(a[1], a[2])
    \/ Room /\ \E a \in MessageArgs : info(a[1], a[2])
    \/ Room /\ \E a \in MessageArgs : warn(a[1], a[2])
    \/ Room /\ \E err \in Errors : error(err)
    \/ Room /\ \E a \in LogArgs : log(a[1], a[2])
    \/ Room /\ \E a \in TrackArgs : track(a[1], a[2])
    \/ Room /\ \E a \in TraceArgs : trace(a[1], a[2], a[3], a[4])
    \/ Room /\ \E a \in RequestArgs : request(a[1], a[2])
    \/ Len(tout) < MaxOut /\ \E callback \in Callbacks : flush(callback)
    \/ \E i \in ResIds : ResponseFinished(i)
    \/ RunImmediate

Spec == Init /\ [][Next]_vars

---------------------------------------------------------------------------
(* Longer runs: a few Loggers and one argument list per method, with
   sinks that have room for MaxRun outputs *)

MaxRun == 2

Up   == Object2("provider", Str("appinsights"), "key", Str("k"))
Down == Object2("provider", Str("appinsights"), "key", DownKey)

\* both sinks; the console alone; telemetry alone; both with a client that
\* is down; a console of a color that is not a named one, with telemetry;
\* no sink
RunOptionsValues ==
    {OptionsOf(Undef, Bool(TRUE), Up, Undef),
     OptionsOf(Undef, Bool(TRUE), Undef, Undef),
     OptionsOf(Undef, Undef, Up, Undef),
     OptionsOf(Undef, Bool(TRUE), Down, Undef),
     OptionsOf(Undef, Object1("color", Str("purple")), Up, Undef),
     OptionsOf(Undef, Undef, Undef, Undef)}

RunError   == Err(Str("boom"), Str("Error: boom at f"))
RunRequest == CHOOSE r \in Requests : r # Undef /\ "ip" \in DOMAIN r.r

RunRoom == Len(cout) + Pending < MaxRun /\ Len(tout) < MaxRun

RunNext ==
    \/ \E options \in RunOptionsValues : configure(options)
    \/ RunRoom /\ debug(Str("x"), Undef)
    \/ RunRoom /\ info(Str("x"), Undef)
    \/ RunRoom /\ warn(Str("x"), Undef)
    \/ RunRoom /\ error(RunError)
    \/ RunRoom /\ log(Str("started"), Undef)
    \/ RunRoom /\ track(Str("m"), Num(5))
    \/ RunRoom /\ trace(Str("dev-db"), Str("select"), Num(15), Bool(TRUE))
    \/ RunRoom /\ \E i \in ResIds : request(RunRequest, Res(i))
    \/ Len(tout) < MaxRun /\ flush(Fun("done"))
    \/ \E i \in ResIds : ResponseFinished(i)
    \/ RunImmediate

RunSpec == Init /\ [][RunNext]_vars

---------------------------------------------------------------------------
(* What a step did, and what an options object asked for *)

MessageOps == {"debug", "info", "warn"}
PassThroughOps == MessageOps \cup {"error", "log", "track", "trace", "request"}

\* no sink received anything and no callback was registered
NoDelivery ==
    /\ cout' = cout
    /\ tout' = tout
    /\ listeners' = listeners
    /\ immediates' = immediates

\* the call returned without reaching a sink
Silent(op) == NoDelivery /\ result' = Returned(op, Undef)

\* the call raised the Error of the console sink's color step; no sink got output
RaisedInvalidColor(op) ==
    /\ NoDelivery
    /\ result' = Threw(op, Str("Invalid Color"))
    /\ Truthy(instance.cClient) /\ Truthy(instance.cClient.colorizer)

\* the console printed exactly one more line, with the given console function
ConsoleGot(fn) ==
    /\ Len(cout') = Len(cout) + 1
    /\ SubSeq(cout', 1, Len(cout)) = cout
    /\ cout'[Len(cout')].fn = fn

\* the telemetry client was handed exactly one more record, of the given kind
TelemetryGot(kind) ==
    /\ Len(tout') = Len(tout) + 1
    /\ SubSeq(tout', 1, Len(tout)) = tout
    /\ tout'[Len(tout')].op = kind

\* the call went past the gate of the facade: a sink printed, recorded or
\* registered something, or the console sink raised
Forwarded(op) ==
    (Truthy(instance.cClient) \/ Truthy(instance.tClient))
        => (~NoDelivery \/ RaisedInvalidColor(op))

\* this step is a configure that stores a new instance
Configures == Falsy(instance) /\ result'.op = "configure" /\ result'.kind = "return"

\* the options the configure of this step was called with
Given == result'.options

\* the value an options object gives a key of log; Undef when absent
LogOf(options, key) ==
    IF "log" \in DOMAIN options THEN Get(options["log"].o, key) ELSE Undef

\* an options object gives an allow-list; the list it gives, as a set
GivesList(options) == "sources" \in DOMAIN options
ListOf(options) == {options["sources"].a[i] : i \in 1..Len(options["sources"].a)}

MessageStep(op, message, source) ==
    CASE op = "debug" -> debug(message, source)
      [] op = "info"  -> info(message, source)
      [] op = "warn"  -> warn(message, source)

\* the rank of the level a message call logs at, and its console function
OpRank(op)      == CASE op = "debug" -> 1 [] op = "info" -> 2 [] op = "warn" -> 3
OpConsoleFn(op) == CASE op = "debug" -> "log" [] op = "info" -> "info" [] op = "warn" -> "warn"

\* the thresholds of the severity gate: a rank, a level name, or true
Thresholds ==
    {Num(1), Num(2), Num(3), Str("debug"), Str("info"), Str("warning"), Bool(TRUE)}

ThresholdRank(value) ==
    CASE value = Bool(TRUE) -> 1
      [] value = Num(1) \/ value = Str("debug") -> 1
      [] value = Num(2) \/ value = Str("info") -> 2
      [] value = Num(3) \/ value = Str("warning") -> 3

ProperMessages == {m \in Messages : m.t = "string" /\ m.s # ""}

\* the stored instance holds threshold rank r
HoldsRank(r) == Truthy(instance) /\ instance.options["messages"] = Num(r)

---------------------------------------------------------------------------
(* Claims *)

\* C1 (as stated): with threshold T given as rank, name or true, a message
\* call at level L with a non-empty string message and no source puts a line
\* on the console (if present) and a trace on telemetry (if present) when
\* rank(L) >= rank(T), and nothing on either sink otherwise.
C1_AsStated ==
    [][/\ (Configures /\ LogOf(Given, "messages") \in Thresholds)
            => instance'.options["messages"] = Num(ThresholdRank(LogOf(Given, "messages")))
       /\ \A r \in 1..3 :
            (result'.op \in MessageOps /\ HoldsRank(r))
                => \A message \in ProperMessages :
                    MessageStep(result'.op, message, Undef) =>
                        IF OpRank(result'.op) >= r
                        THEN /\ Truthy(instance.cClient)
                                    => ConsoleGot(OpConsoleFn(result'.op))
                             /\ Truthy(instance.tClient) => TelemetryGot("trackTrace")
                             /\ Falsy(instance.cClient) => cout' = cout
                             /\ Falsy(instance.tClient) => tout' = tout
                        ELSE NoDelivery]_vars

\* C1 (amended): as C1, except that when the console sink raises Invalid Color
\* for the line the call throws and neither sink receives anything.
C1_SeverityGate ==
    [][/\ (Configures /\ LogOf(Given, "messages") \in Thresholds)
            => instance'.options["messages"] = Num(ThresholdRank(LogOf(Given, "messages")))
       /\ \A r \in 1..3 :
            (result'.op \in MessageOps /\ HoldsRank(r))
                => \A message \in ProperMessages :
                    MessageStep(result'.op, message, Undef) =>
                        IF OpRank(result'.op) >= r
                        THEN \/ RaisedInvalidColor(result'.op)
                             \/ /\ result' = Returned(result'.op, Undef)
                                /\ Truthy(instance.cClient)
                                    => ConsoleGot(OpConsoleFn(result'.op))
                                /\ Truthy(instance.tClient) => TelemetryGot("trackTrace")
                                /\ Falsy(instance.cClient) => cout' = cout
                                /\ Falsy(instance.tClient) => tout' = tout
                        ELSE Silent(result'.op)]_vars

\* threshold info: info() has reached both sinks
C1_Witness ==
    /\ HoldsRank(MessageLevel_info)
    /\ result = Returned("info", Undef)
    /\ Len(cout) = 1 /\ cout[1].fn = "info"
    /\ Len(tout) = 1 /\ tout[1].op = "trackTrace"
    /\ tout[1].args[2] = Num(SeverityLevel_Information)

\* C2: with log.messages explicitly false the stored threshold is absent, and
\* then no message call reaches the console or telemetry.
C2_MessagesDisabled ==
    [][/\ (Configures /\ LogOf(Given, "messages") = Bool(FALSE))
            => instance'.options["messages"] = Undef
       /\ (result'.op \in MessageOps /\ Truthy(instance)
            /\ instance.options["messages"] = Undef) => NoDelivery]_vars

---------------------------------------------------------------------------
(* Calls with proper arguments, by method *)

FlagOps == {"error", "log", "track", "trace", "request"}

\* the key of options.log a method of FlagOps tests
FlagOf(op) ==
    CASE op = "error"   -> "errors"
      [] op = "log"     -> "events"
      [] op = "track"   -> "metrics"
      [] op = "trace"   -> "services"
      [] op = "request" -> "requests"

ProperErrors   == {e \in Errors : e.t = "error"}
ProperLogArgs  == {a \in LogArgs : a[1].t = "string" /\ a[1].s # ""}
ProperTrackArgs ==
    {a \in TrackArgs : a[1].t = "string" /\ a[1].s # "" /\ a[2].t = "number"}
ProperTraceArgs ==
    {a \in TraceArgs : a[1].t = "string" /\ a[2].t = "string" /\ a[3].t = "number"}
ProperRequestArgs == {a \in RequestArgs : a[1] # Undef /\ a[2] # Undef}

\* this step is a call of op with arguments of the proper types; a trace call
\* names a source the allow-list (if any) holds
ProperStep(op) ==
    CASE op = "error"   -> \E err \in ProperErrors : error(err)
      [] op = "log"     -> \E a \in ProperLogArgs : log(a[1], a[2])
      [] op = "track"   -> \E a \in ProperTrackArgs : track(a[1], a[2])
      [] op = "trace"   -> \E a \in ProperTraceArgs :
                                /\ Falsy(instance.whitelist) \/ a[1] \in instance.whitelist.has
                                /\ trace(a[1], a[2], a[3], a[4])
      [] op = "request" -> \E a \in ProperRequestArgs : request(a[1], a[2])

\* the flag the stored instance holds for a method of FlagOps
HoldsFlag(op, b) == Truthy(instance) /\ instance.options[FlagOf(op)] = Bool(b)

---------------------------------------------------------------------------

\* C3: for each of errors, events, metrics, services, requests: a flag given
\* as false is stored as false and then the method reaches neither sink for
\* any arguments; a flag absent from the configuration is stored as true and
\* then a call with proper arguments goes past the gate.
C3_CategoryFlags ==
    [][/\ Configures =>
            \A op \in FlagOps :
                /\ LogOf(Given, FlagOf(op)) = Bool(FALSE)
                        => instance'.options[FlagOf(op)] = Bool(FALSE)
                /\ LogOf(Given, FlagOf(op)) = Undef
                        => instance'.options[FlagOf(op)] = Bool(TRUE)
       /\ (result'.op \in FlagOps /\ HoldsFlag(result'.op, FALSE)) => Silent(result'.op)
       /\ (result'.op \in FlagOps /\ HoldsFlag(result'.op, TRUE))
            => (Forwarded(result'.op) \/ ~ProperStep(result'.op))]_vars

\* errors disabled, both sinks present: error() returned and nothing was output
C3_Witness ==
    /\ HoldsFlag("error", FALSE)
    /\ Truthy(instance.cClient) /\ Truthy(instance.tClient)
    /\ result = Returned("error", Undef)
    /\ cout = <<>> /\ tout = <<>>

---------------------------------------------------------------------------
(* Calls as values, and options objects with one category changed *)

\* the key of options.log a method tests
CategoryOf(op) == IF op \in MessageOps THEN "messages" ELSE FlagOf(op)

\* every call the pass-through functions are given
Calls ==
    {[op |-> op, args |-> a] : op \in MessageOps, a \in MessageArgs}
    \cup {[op |-> "error", args |-> <<err>>] : err \in Errors}
    \cup {[op |-> "log", args |-> a] : a \in LogArgs}
    \cup {[op |-> "track", args |-> a] : a \in TrackArgs}
    \cup {[op |-> "trace", args |-> a] : a \in TraceArgs}
    \cup {[op |-> "request", args |-> a] : a \in RequestArgs}

\* what a call does on a Logger
Invoke(this, call, now) ==
    LET a == call.args
    IN  CASE call.op = "debug"   -> Logger_debug(this, a[1], a[2], now)
          [] call.op = "info"    -> Logger_info(this, a[1], a[2], now)
          [] call.op = "warn"    -> Logger_warn(this, a[1], a[2], now)
          [] call.op = "error"   -> Logger_error(this, a[1], now)
          [] call.op = "log"     -> Logger_log(this, a[1], a[2], now)
          [] call.op = "track"   -> Logger_track(this, a[1], a[2], now)
          [] call.op = "trace"   -> Logger_trace(this, a[1], a[2], a[3], a[4], now)
          [] call.op = "request" -> Logger_request(this, a[1], a[2])

\* options with key k of log given as v, or left out when v is Undef
WithLog(options, k, v) ==
    LET f == IF "log" \in DOMAIN options THEN options["log"].o ELSE <<>>
        keys == IF v = Undef THEN DOMAIN f \ {k} ELSE DOMAIN f \cup {k}
        g == [x \in keys |-> IF x = k THEN v ELSE f[x]]
    IN  [x \in DOMAIN options \cup {"log"} |-> IF x = "log" THEN Obj(g) ELSE options[x]]

---------------------------------------------------------------------------

\* the Logger built from options with key k of log given as v
Rebuilt(options, k, v, id) == Logger(WithLog(options, k, v), id)

\* C4: the six categories are pairwise independent: a Logger built from the
\* same options with one category set differently (any threshold, false, or
\* left out) differs in that stored setting only, and does exactly the same
\* on every call of every other category; so error() does not depend on the
\* message threshold.  The instance is a function of the options alone, so
\* the comparison is made at the configure that opens a run.
C4_CategoryIndependence ==
    [][(Configures /\ result.op = "none") =>
        /\ \A k \in LogKeys : \A v \in LogValues(k) \cup {Undef} :
                /\ Rebuilt(Given, k, v, instance'.id).thrown = Undef
                /\ \A x \in LogKeys \ {k} :
                        Rebuilt(Given, k, v, instance'.id).value.options[x]
                            = instance'.options[x]
        /\ \A call \in Calls : \A now \in Timestamps :
                \A k \in LogKeys \ {CategoryOf(call.op)} :
                    \A v \in LogValues(k) \cup {Undef} :
                        Invoke(Rebuilt(Given, k, v, instance'.id).value, call, now)
                            = Invoke(instance', call, now)]_vars

\* threshold warning, events disabled or not: error() has reached both sinks
C4_Witness ==
    /\ HoldsRank(MessageLevel_warning)
    /\ result = Returned("error", Undef)
    /\ Len(cout) = 1 /\ cout[1].fn = "error"
    /\ Len(tout) = 1 /\ tout[1].op = "trackException"

\* C5: the allow-list the instance holds is the list given (none when none is
\* given); with services enabled, trace() with a source the list does not
\* hold reaches neither sink, and trace() with a listed source, or with any
\* string source when there is no list, goes past the gate.
C5_TraceAllowList ==
    [][/\ Configures =>
            IF ~GivesList(Given) THEN instance'.whitelist = Undef
            ELSE Truthy(instance'.whitelist) /\ instance'.whitelist.has = ListOf(Given)
       /\ (result'.op = "trace" /\ HoldsFlag("trace", TRUE)) =>
            \A a \in TraceArgs :
                \/ IF Truthy(instance.whitelist) /\ a[1] \notin instance.whitelist.has
                   THEN Silent("trace")
                   ELSE a \in ProperTraceArgs => Forwarded("trace")
                \/ ~trace(a[1], a[2], a[3], a[4])]_vars

\* allow-list holding dev-db: trace("dev-db", ...) has reached telemetry
C5_Witness ==
    /\ HoldsFlag("trace", TRUE)
    /\ Truthy(instance.whitelist) /\ instance.whitelist.has = {Str("dev-db")}
    /\ result = Returned("trace", Undef)
    /\ Len(tout) = 1 /\ tout[1].op = "trackDependency" /\ tout[1].args[1] = Str("dev-db")

\* the Logger with its allow-list taken away
Unlisted(this) == [this EXCEPT !.whitelist = Undef]

\* C6: with an allow-list, a message call with a source the list does not
\* hold reaches neither sink whatever the threshold; a message call with no
\* source, or with a listed source, does what it does on the same Logger
\* without allow-list.
C6_MessageAllowList ==
    [][/\ (result'.op \in MessageOps /\ Truthy(instance) /\ Truthy(instance.whitelist)) =>
            \A a \in MessageArgs :
                (Truthy(a[2]) /\ a[2] \notin instance.whitelist.has) =>
                    (Silent(result'.op) \/ ~MessageStep(result'.op, a[1], a[2]))
       /\ (Configures /\ Truthy(instance'.whitelist)) =>
            \A op \in MessageOps : \A a \in MessageArgs : \A now \in Timestamps :
                (Falsy(a[2]) \/ a[2] \in instance'.whitelist.has) =>
                    Invoke(instance', [op |-> op, args |-> a], now)
                        = Invoke(Unlisted(instance'), [op |-> op, args |-> a], now)]_vars

\* allow-list holding dev-db: warn(message, "dev-db") has reached telemetry
C6_Witness ==
    /\ Truthy(instance) /\ Truthy(instance.whitelist)
    /\ result = Returned("warn", Undef)
    /\ Len(tout) = 1 /\ tout[1].op = "trackTrace"
    /\ tout[1].args[3] = Props(<< <<"name", LoggerName>>, <<"source", Str("dev-db")>> >>)

\* C7: the first configure() stores the Logger it returns; a configure() with
\* an instance stored throws and delivers nothing; the stored instance never
\* changes; getInstance() returns the stored instance.
C7_WriteOnce ==
    [][/\ Truthy(instance) => instance' = instance
       /\ Configures => (Truthy(instance') /\ result'.value = instance')
       /\ (result'.op = "configure" /\ Truthy(instance)) =>
            /\ result'.kind = "throw" /\ result'.value = AlreadyConfigured
            /\ NoDelivery
       /\ (result'.op = "getInstance" /\ Truthy(instance)) =>
            result' = Returned("getInstance", instance)]_vars

\* a later configure() has thrown
C7_Witness ==
    /\ Truthy(instance) /\ instance.id = 1
    /\ result.op = "configure" /\ result.kind = "throw"
    /\ result.value = AlreadyConfigured

\* C8: with no instance stored, getInstance() and every pass-through
\* function throw 'Global logger has not yet been configured' and deliver
\* nothing, whatever their arguments; no instance is stored by them.
C8_NotConfigured ==
    [][(Falsy(instance) /\ result'.op \in PassThroughOps \cup {"getInstance"}) =>
        /\ result' = Threw(result'.op, NotConfigured)
        /\ NoDelivery
        /\ instance' = instance]_vars

\* track() has thrown before any configure()
C8_Witness ==
    /\ Falsy(instance)
    /\ result = Threw("track", NotConfigured)
    /\ cout = <<>> /\ tout = <<>>

---------------------------------------------------------------------------
(* Calls with an argument the guards reject *)

\* this step is the given call of a pass-through function
CallStep(call) ==
    LET a == call.args
    IN  CASE call.op = "debug"   -> debug(a[1], a[2])
          [] call.op = "info"    -> info(a[1], a[2])
          [] call.op = "warn"    -> warn(a[1], a[2])
          [] call.op = "error"   -> error(a[1])
          [] call.op = "log"     -> log(a[1], a[2])
          [] call.op = "track"   -> track(a[1], a[2])
          [] call.op = "trace"   -> trace(a[1], a[2], a[3], a[4])
          [] call.op = "request" -> request(a[1], a[2])

\* message empty or not a string; error not an Error; event not a string;
\* metric empty or value not a number; source or command not a string or
\* duration not a number; request or response missing
Rejected(call) ==
    LET a == call.args
    IN  CASE call.op \in MessageOps -> a[1].t # "string" \/ a[1] = Str("")
          [] call.op = "error"   -> a[1].t # "error"
          [] call.op = "log"     -> a[1].t # "string"
          [] call.op = "track"   -> a[1] = Str("") \/ a[2].t # "number"
          [] call.op = "trace"   ->
                a[1].t # "string" \/ a[2].t # "string" \/ a[3].t # "number"
          [] call.op = "request" -> a[1] = Undef \/ a[2] = Undef

RejectedCalls == {call \in Calls : Rejected(call)}

---------------------------------------------------------------------------

\* C10: on the stored Logger, a call with an argument the guards reject
\* returns without throwing and delivers nothing to either sink.
C10_SilentGuards ==
    [][(result'.op \in PassThroughOps /\ Truthy(instance)) =>
        \/ Silent(result'.op)
        \/ \A call \in RejectedCalls : call.op = result'.op => ~CallStep(call)]_vars

\* events enabled, telemetry present: log() has returned and nothing was sent
C10_Witness ==
    /\ HoldsFlag("log", TRUE)
    /\ Truthy(instance.cClient) /\ Truthy(instance.tClient)
    /\ result = Returned("log", Undef)
    /\ cout = <<>> /\ tout = <<>>

---------------------------------------------------------------------------
(* Request lines *)

\* sequence s continues sequence r
Extends(s, r) == Len(s) >= Len(r) /\ SubSeq(s, 1, Len(r)) = r

\* this step is request() past the gate on a Logger with a console sink
GatedRequest ==
    /\ result'.op = "request"
    /\ HoldsFlag("request", TRUE)
    /\ Truthy(instance.cClient)
    /\ \E a \in ProperRequestArgs : request(a[1], a[2])

\* the console printed n more lines, each with console.info
InfoLines(n) ==
    /\ Len(cout') = Len(cout) + n
    /\ Extends(cout', cout)
    /\ \A j \in (Len(cout) + 1)..Len(cout') : cout'[j].fn = "info"

\* a step that is neither a response finishing nor a deferred callback
\* running takes no registered callback away and runs none
KeepsCallbacks ==
    (result'.op \notin {"finished", "immediate"}) =>
        /\ \A i \in ResIds : Extends(listeners'[i], listeners[i])
        /\ Extends(immediates', immediates)

\* request() writes no line and registers one callback
RegistersOne ==
    GatedRequest => (cout' = cout /\ Pending' = Pending + 1)

\* C9 (as stated): request() past the gate on a Logger with a console sink
\* writes no line during the call and registers one callback; when the
\* response finishes each callback registered on it writes exactly one line;
\* a callback registered on a finished response writes its line when the
\* event loop runs it; no other step runs a callback.
C9_AsStated ==
    [][/\ RegistersOne
       /\ KeepsCallbacks
       /\ \A i \in ResIds :
            (result'.op = "finished" /\ ~finished[i] /\ finished'[i]) =>
                /\ InfoLines(Len(listeners[i]))
                /\ listeners'[i] = <<>>
       /\ (result'.op = "immediate") =>
                /\ InfoLines(1)
                /\ immediates' = Tail(immediates)]_vars

\* C9 (amended): as C9, except that when the console sink raises Invalid
\* Color for the request line the callback throws and writes no line.
C9_DeferredRequestLine ==
    [][/\ RegistersOne
       /\ KeepsCallbacks
       /\ \A i \in ResIds :
            (result'.op = "finished" /\ ~finished[i] /\ finished'[i]) =>
                /\ listeners'[i] = <<>>
                /\ IF result'.kind = "throw"
                   THEN /\ result'.value = Str("Invalid Color")
                        /\ listeners[i] # <<>>
                        /\ Truthy(listeners[i][1].this.colorizer)
                        /\ cout' = cout
                   ELSE InfoLines(Len(listeners[i]))
       /\ (result'.op = "immediate") =>
                /\ immediates' = Tail(immediates)
                /\ IF result'.kind = "throw"
                   THEN /\ result'.value = Str("Invalid Color")
                        /\ Truthy(immediates[1].this.colorizer)
                        /\ cout' = cout
                   ELSE InfoLines(1)]_vars

\* the response has finished and the request line has been written
C9_Witness ==
    /\ result = Returned("finished", Undef)
    /\ finished[1] /\ listeners[1] = <<>>
    /\ Len(cout) = 1 /\ cout[1].fn = "info"
    /\ cout[1].text = "[dev-logger]: 10.0.0.1 - GET /a HTTP/1.1 200 42 - 15 ms"

---------------------------------------------------------------------------
(* Construction *)

\* this step is a configure with no instance stored: it runs the constructor
Constructs == Falsy(instance) /\ result'.op = "configure"

\* the value an options object gives a key; Undef when absent
OptionOf(options, key) == IF key \in DOMAIN options THEN options[key] ELSE Undef

\* the provider a telemetry object names; Undef when it names none
ProviderOf(telemetry) ==
    IF "provider" \in DOMAIN telemetry.o THEN telemetry.o["provider"] ELSE Undef

\* the constructor threw and no Logger was stored
Refused ==
    /\ result'.kind = "throw"
    /\ instance' = Undef
    /\ NoDelivery

\* C11: a telemetry object whose provider is missing or is not 'appinsights'
\* makes the constructor throw and no Logger is stored; with 'appinsights'
\* (and no other fault in the options) the Logger is built with a telemetry
\* client; with no telemetry object no telemetry error is thrown and the
\* Logger built has no telemetry client.
C11_ProviderValidation ==
    [][Constructs =>
        LET telemetry == OptionOf(Given, "telemetry")
        IN  IF telemetry = Undef
            THEN /\ result'.kind = "return" => instance'.tClient = Undef
                 /\ result'.kind = "throw" =>
                        result'.value = Str("sources option must be an array")
            ELSE IF ProviderOf(telemetry) = Undef
            THEN Refused /\ result'.value = Str("Telemetry provider is undefined")
            ELSE IF ProviderOf(telemetry) # Str("appinsights")
            THEN /\ Refused
                 /\ result'.value = Str("Telemetry provider {"
                        \o ProviderOf(telemetry).s \o "} is not supported")
            ELSE /\ result'.kind = "return" => Truthy(instance'.tClient)
                 /\ (~GivesList(Given) \/ Given["sources"].t = "array")
                        => result'.kind = "return"]_vars

\* configure() with provider 'other' has thrown and no Logger is stored
C11_Witness ==
    /\ instance = Undef
    /\ result.op = "configure" /\ result.kind = "throw"
    /\ result.value = Str("Telemetry provider {other} is not supported")
    /\ OptionOf(result.options, "telemetry") =
            Object2("provider", Str("other"), "key", Str("k"))

\* an array whose elements are all strings
IsStringList(v) == v.t = "array" /\ \A i \in 1..Len(v.a) : v.a[i].t = "string"

\* C12: a sources value that is not an array of strings (not an array, or an
\* array with an element that is not a string) makes the constructor throw
\* and no Logger is stored.
C12_ListOfStrings ==
    [][(Constructs /\ GivesList(Given) /\ ~IsStringList(Given["sources"])) => Refused]_vars

---------------------------------------------------------------------------
(* Severity parsing *)

\* the value of log.messages the constructor hands to parse
MessagesOf(options) ==
    IF "log" \in DOMAIN options /\ "messages" \in DOMAIN options["log"].o
    THEN options["log"].o["messages"]
    ELSE DEFAULT_LOGGING_OPTIONS["messages"]

\* the rank of a level name; Undef for every other string
RankOfName(s) ==
    CASE s = "debug"   -> Num(1)
      [] s = "info"    -> Num(2)
      [] s = "warning" -> Num(3)
      [] s = "error"   -> Num(4)
      [] OTHER         -> Undef

\* C13: the threshold stored for a string is the rank of the level name it
\* spells (debug, info, warning, error; case-sensitive) and absent for every
\* other string, "1" and "parse" included.
C13_ParseStrings ==
    [][(Configures /\ MessagesOf(Given).t = "string") =>
        instance'.options["messages"] = RankOfName(MessagesOf(Given).s)]_vars

\* C14: the threshold stored is parse of the value given, and parsing it
\* again gives the same value.
C14_ParseIdempotent ==
    [][Configures =>
        /\ instance'.options["messages"] = parse(MessagesOf(Given))
        /\ parse(instance'.options["messages"]) = instance'.options["messages"]]_vars

---------------------------------------------------------------------------
(* Console lines *)

\* the line the console printed in this step
Line == cout'[Len(cout')].text

\* this step printed one line on the console of the stored Logger
PrintsLine ==
    /\ Truthy(instance) /\ Truthy(instance.cClient)
    /\ Len(cout') = Len(cout) + 1

\* a bracketed segment, present when the flag of the prefix options is on
Segment(this, flag, text) ==
    IF flag \in DOMAIN this.prefixer.options /\ this.prefixer.options[flag] = Bool(TRUE)
    THEN "[" \o text \o "]" ELSE ""

\* the line of a console sink for a message of a level and a source: the
\* segments in the order time, name, level, source, then ': ' and the
\* message; the message alone when the sink has no prefixer
Composed(this, level, source, message, now) ==
    IF this.prefixer = Undef THEN message
    ELSE Segment(this, "time", now) \o Segment(this, "name", "dev-logger")
            \o Segment(this, "stream", level)
            \o (IF source = Undef THEN "" ELSE "[" \o source.s \o "]")
            \o ": " \o message

\* text wrapped in the escape codes of a named color
InColor(color, text) == "ESC[" \o AnsiCode(color) \o "m" \o text \o "ESC[39m"

\* text as printed: bare, or in one of the named colors
Renderings(text) == {text} \cup {InColor(color, text) : color \in Colors}

\* the level name of a message call
OpLevel(op) == CASE op = "debug" -> "debug" [] op = "info" -> "info" [] op = "warn" -> "warning"

\* the message ConsoleLogger.trace prints
TraceMessage(a) ==
    IF a[4] = Bool(FALSE) THEN "failed to execute [" \o a[2].s \o "] in 15 ms"
    ELSE "executed [" \o a[2].s \o "] in 15 ms"

\* C15: a line printed by a message call is [time][name][level] with each
\* segment present only if its prefix flag is on, then ': ' and the message;
\* a line printed by trace() has [source] as one more segment after them.
C15_PrefixComposition ==
    [][(result'.op \in MessageOps \cup {"trace"} /\ PrintsLine) =>
        \E now \in Timestamps :
            IF result'.op \in MessageOps
            THEN Line \in Renderings(
                    Composed(instance.cClient, OpLevel(result'.op), Undef, "x", now))
            ELSE \E a \in ProperTraceArgs :
                    /\ trace(a[1], a[2], a[3], a[4])
                    /\ Line \in Renderings(
                        Composed(instance.cClient, "info", a[1], TraceMessage(a), now))]_vars

\* prefix flags time, name, stream: warn("x") has printed the three segments
C15_Witness ==
    /\ result = Returned("warn", Undef)
    /\ Len(cout) = 1 /\ cout[1].fn = "warn"
    /\ cout[1].text = "[2016-06-01T10:00:00.000Z][dev-logger][warning]: x"

\* the color a console sink maps a level or else a source to; Undef when it
\* maps neither or has no tables
Mapped(this, level, source) ==
    IF this.colorizer = Undef \/ this.colorizer.single THEN Undef
    ELSE IF level \in DOMAIN this.colorizer.severity THEN this.colorizer.severity[level]
    ELSE IF source # Undef /\ source.s \in DOMAIN this.colorizer.services
    THEN this.colorizer.services[source.s]
    ELSE Undef

\* C16: a message call with a source, on a Logger whose console sink has a
\* prefixer, prints a line whose prefix ends with [source], in the color
\* mapped to the source when no color is mapped to the level.
C16_SourceTag ==
    [][(result'.op \in MessageOps /\ PrintsLine /\ instance.cClient.prefixer # Undef) =>
        \A source \in Sources \ {Undef} :
            MessageStep(result'.op, Str("x"), source) =>
                \E now \in Timestamps :
                    LET text == Composed(instance.cClient, OpLevel(result'.op),
                                         source, "x", now)
                        color == Mapped(instance.cClient, OpLevel(result'.op), source)
                    IN  IF color = Undef THEN Line \in Renderings(text)
                        ELSE Line = InColor(color.s, text)]_vars

\* the color of a line of a level and a source: the single color; or the one
\* mapped to the level, else the one mapped to the source; Undef for none
Selected(this, level, source) ==
    IF this.colorizer = Undef THEN Undef
    ELSE IF this.colorizer.single THEN this.colorizer.color
    ELSE Mapped(this, level, source)

\* text in the color selected for it, bare when none is
Shown(this, level, source, text) ==
    IF Selected(this, level, source) = Undef THEN text
    ELSE InColor(Selected(this, level, source).s, text)

\* C17: a printed line is in the color mapped to its severity level if there
\* is one, else in the color mapped to its source if there is one, else
\* unmodified; with a single color every line is in that color; with no
\* color configuration no line is modified.  A message line has no source
\* at the console sink; a trace line has level info and the service as source.
C17_ColorPrecedence ==
    [][(result'.op \in MessageOps \cup {"trace"} /\ PrintsLine) =>
        \E now \in Timestamps :
            IF result'.op \in MessageOps
            THEN Line = Shown(instance.cClient, OpLevel(result'.op), Undef,
                              Composed(instance.cClient, OpLevel(result'.op), Undef,
                                       "x", now))
            ELSE \E a \in ProperTraceArgs :
                    /\ trace(a[1], a[2], a[3], a[4])
                    /\ Line = Shown(instance.cClient, "info", a[1],
                                    Composed(instance.cClient, "info", a[1],
                                             TraceMessage(a), now))]_vars

\* info mapped to cyan and dev-db to magenta: the line of trace("dev-db", ...)
\* is in cyan
C17_Witness ==
    /\ result = Returned("trace", Undef)
    /\ Len(cout) = 1
    /\ cout[1].text = InColor("cyan",
            "[2016-06-01T10:00:00.000Z][dev-logger][info][dev-db]: executed [select] in 15 ms")

---------------------------------------------------------------------------
(* Colors outside the nine named ones *)

\* the methods that print their line during the call
PrintOps == MessageOps \cup {"error", "log", "track", "trace"}

\* the level of the line a method prints
LevelOf(op) ==
    IF op \in MessageOps THEN OpLevel(op) ELSE IF op = "error" THEN "error" ELSE "info"

\* the console sink selects, for a line of a level and a source, a color
\* that is not a named one
Unnamed(this, level, source) ==
    /\ Selected(this, level, source) # Undef
    /\ Selected(this, level, source).s \notin Colors

\* the console options name a color outside the named ones somewhere
NamesPurple(console) ==
    /\ console.t = "object" /\ "color" \in DOMAIN console.o
    /\ \/ console.o["color"] = Str("purple")
       \/ /\ console.o["color"].t = "object"
          /\ \E k \in DOMAIN console.o["color"].o["severity"].o :
                console.o["color"].o["severity"].o[k] = Str("purple")

\* this step is a call that prints a line: past the gate, proper arguments
LineStep(op) ==
    IF op \in MessageOps
    THEN MessageStep(op, Str("x"), Undef) /\ ~Silent(op)
    ELSE HoldsFlag(op, TRUE) /\ ProperStep(op)

\* C18: a console color outside the nine named ones does not make the
\* constructor throw; a call throws Invalid Color, with nothing delivered,
\* exactly when the line it prints resolves to such a color, and the other
\* calls print their lines; the line of request() is resolved when its
\* callback runs, and the callback throws then.
C18_LazyInvalidColor ==
    [][/\ (Constructs /\ NamesPurple(OptionOf(Given, "console")))
            => (result'.kind = "return" /\ Truthy(instance'.cClient))
       /\ (result'.op \in PrintOps /\ Truthy(instance) /\ result'.kind = "throw") =>
            /\ RaisedInvalidColor(result'.op)
            /\ IF result'.op = "trace"
               THEN \E a \in ProperTraceArgs :
                        /\ trace(a[1], a[2], a[3], a[4])
                        /\ Unnamed(instance.cClient, "info", a[1])
               ELSE Unnamed(instance.cClient, LevelOf(result'.op), Undef)
       /\ (result'.op \in PrintOps \ {"trace"} /\ Truthy(instance)
                /\ Truthy(instance.cClient)
                /\ Unnamed(instance.cClient, LevelOf(result'.op), Undef)) =>
            (RaisedInvalidColor(result'.op) \/ ~LineStep(result'.op))
       /\ (result'.op \in {"finished", "immediate"}) =>
            LET queue == IF result'.op = "immediate" THEN immediates
                         ELSE listeners[CHOOSE i \in ResIds : finished'[i] /\ ~finished[i]]
            IN  result'.kind = "throw" <=>
                    (queue # <<>> /\ Unnamed(queue[1].this, "info", Undef))]_vars

\* error mapped to a color that is not a named one, by severity: error() has
\* thrown Invalid Color and nothing was delivered
C18_Witness ==
    /\ Truthy(instance) /\ Truthy(instance.cClient) /\ Truthy(instance.tClient)
    /\ Truthy(instance.cClient.colorizer) /\ ~instance.cClient.colorizer.single
    /\ result = Threw("error", Str("Invalid Color"))
    /\ cout = <<>> /\ tout = <<>>

---------------------------------------------------------------------------
(* Request lines, by format *)

\* the client address of a request: its ip when it has one, the remote
\* address of its connection otherwise
AddressOf(req) ==
    IF "ip" \in DOMAIN req.r THEN req.r["ip"].s
    ELSE req.r["connection"].o["remoteAddress"].s

\* the path of a request when it has one, its url otherwise
UrlOf(req) ==
    IF "path" \in DOMAIN req.r THEN req.r["path"].s ELSE req.r["url"].s

\* the two formats, for method GET, version 1.1, status 200, content-length
\* 42 and 15 ms
ShortLine(req) ==
    AddressOf(req) \o " - GET " \o UrlOf(req) \o " HTTP/1.1 200 42 - 15 ms"
DevLine(req) == "GET " \o UrlOf(req) \o " 200 15 ms - 42"

\* the callbacks this step runs
Ran ==
    IF result'.op = "immediate" THEN <<immediates[1]>>
    ELSE listeners[CHOOSE i \in ResIds : finished'[i] /\ ~finished[i]]

\* C19: for the request and response of a callback that runs, the short
\* format is '{address} - {method} {url} HTTP/{version} {status} {length} -
\* {duration} ms' and the dev format '{method} {url} {status} {duration} ms -
\* {length}', the address being the ip of the request when it has one and
\* the remote address of its connection otherwise; no request gives no line;
\* the line printed is the one of the format of the console sink.
C19_RequestLineFormats ==
    [][(result'.op \in {"finished", "immediate"} /\ Ran # <<>>) =>
        \A j \in 1..Len(Ran) : \A duration \in Elapsed :
            LET cb == Ran[j]
            IN  /\ buildRequestLine(cb.request, cb.response, duration, Str("short"))
                        = Str(ShortLine(cb.request))
                /\ buildRequestLine(cb.request, cb.response, duration, Str("dev"))
                        = Str(DevLine(cb.request))
                /\ buildRequestLine(Undef, cb.response, duration, Str("short")) = Undef
                /\ buildRequestLine(Undef, cb.response, duration, Str("dev")) = Undef
                /\ result'.kind = "return" =>
                    \E now \in Timestamps :
                        cout'[Len(cout) + j].text =
                            Shown(cb.this, "info", Undef,
                                  Composed(cb.this, "info", Undef,
                                           IF cb.this.fOptions["request"] = Str("dev")
                                           THEN DevLine(cb.request)
                                           ELSE ShortLine(cb.request), now))]_vars

\* a request with no ip: the short line has the remote address of the connection
C19_Witness ==
    /\ result = Returned("finished", Undef)
    /\ Len(cout) = 1 /\ cout[1].fn = "info"
    /\ cout[1].text = "[dev-logger]: 10.0.0.2 - GET /b HTTP/1.1 200 42 - 15 ms"

---------------------------------------------------------------------------
(* flush *)

\* C20: flush of a function: with a telemetry client the client is given one
\* sendPendingData with the callback and the Logger calls nothing itself;
\* with none the callback has been called exactly once when flush returns,
\* and nothing is sent; the console is given nothing either way.
C20_Flush ==
    [][\A callback \in Callbacks :
        (result'.op = "flush" /\ TypeOf(callback) = "function") =>
            \/ /\ result'.kind = "return"
               /\ cout' = cout
               /\ IF Truthy(instance.tClient)
                  THEN /\ tout' = Append(tout, [op |-> "sendPendingData",
                                                args |-> <<callback>>])
                       /\ result'.called = <<>>
                  ELSE /\ tout' = tout
                       /\ result'.called = <<callback>>
            \/ ~flush(callback)]_vars

\* flush has called the callback itself, no telemetry client being there
C20_Witness ==
    /\ result.op = "flush" /\ result.kind = "return"
    /\ result.called = <<Fun("done")>>
    /\ Falsy(instance.tClient)

---------------------------------------------------------------------------
(* Events and metrics *)

\* C21: log(event, properties) reaches a sink only if the events category is
\* on and event is a string that is not empty; the empty string reaches
\* neither sink.
C21_EventGate ==
    [][result'.op = "log" =>
        \A a \in LogArgs :
            \/ HoldsFlag("log", TRUE) /\ a[1].t = "string" /\ a[1].s # ""
            \/ NoDelivery
            \/ ~log(a[1], a[2])]_vars

\* C22: the line printed by track(metric, value) is the prefix of the sink,
\* ': ' and the body 'metric=value', in the color of the sink.
C22_MetricBody ==
    [][(result'.op = "track" /\ PrintsLine) =>
        \A a \in ProperTrackArgs :
            \/ \E now \in Timestamps :
                  Line = Shown(instance.cClient, "info", Undef,
                               Composed(instance.cClient, "info", Undef,
                                        a[1].s \o "=" \o ToString(a[2].n), now))
            \/ ~track(a[1], a[2])]_vars

---------------------------------------------------------------------------
(* The order of the output *)

\* the methods whose output is complete when they return
SyncOps == MessageOps \cup {"error", "log", "track", "trace"}

\* the console function and the telemetry method a call of op ends in
LineFn(op) ==
    CASE op = "debug" -> "log" [] op = "warn" -> "warn" [] op = "error" -> "error"
      [] OTHER -> "info"
RecordKind(op) ==
    CASE op \in MessageOps -> "trackTrace"
      [] op = "error" -> "trackException"
      [] op = "log"   -> "trackEvent"
      [] op = "track" -> "trackMetric"
      [] op = "trace" -> "trackDependency"
      [] op = "request" -> "trackRequest"

\* the responses of the callbacks this step runs have finished
RanAfterFinish ==
    IF result'.op = "immediate" THEN finished[immediates[1].response.i]
    ELSE \E i \in ResIds : ~finished[i] /\ finished'[i] /\ listeners'[i] = <<>>

\* C23: what the sinks were given stays where it is and later output goes
\* after it.  A call of debug, info, warn, error, log, track or trace leaves
\* nothing for later: when it returns, its line (at most one, of its console
\* function) is the last line and its record (at most one, of its kind) the
\* last record.  request() prints nothing itself, and lines that come with
\* no call are request lines of responses that have finished, after whatever
\* was printed in between.
C23_OutputOrder ==
    [][/\ Extends(cout', cout) /\ Extends(tout', tout)
       /\ result'.op \in SyncOps =>
            /\ listeners' = listeners /\ immediates' = immediates
            /\ Len(cout') <= Len(cout) + 1 /\ Len(tout') <= Len(tout) + 1
            /\ Len(cout') > Len(cout) => cout'[Len(cout')].fn = LineFn(result'.op)
            /\ Len(tout') > Len(tout) => tout'[Len(tout')].op = RecordKind(result'.op)
       /\ result'.op = "request" => cout' = cout
       /\ result'.op \in {"finished", "immediate"} =>
            /\ tout' = tout
            /\ Len(cout') > Len(cout) => RanAfterFinish]_vars

\* request() was called before info(), as the records show, and its line is
\* printed after the line of info()
C23_Witness ==
    /\ Len(tout) = 2 /\ tout[1].op = "trackRequest" /\ tout[2].op = "trackTrace"
    /\ Len(cout) = 2
    /\ cout[1] = [fn |-> "info", text |-> "[dev-logger]: x"]
    /\ cout[2].text = "[dev-logger]: 10.0.0.1 - GET /a HTTP/1.1 200 42 - 15 ms"

---------------------------------------------------------------------------
(* The configuration after construction *)

\* every step but configure
UseOps == PassThroughOps \cup {"getInstance", "flush", "finished", "immediate"}

\* the callbacks that wait after this step
WaitingNext ==
    UNION {{listeners'[i][j] : j \in 1..Len(listeners'[i])} : i \in ResIds}
        \cup {immediates'[j] : j \in 1..Len(immediates')}

\* C24: no call of a logging method, of flush or of getInstance, and no
\* callback run for a finished response, changes the stored Logger: its
\* settings, threshold, allow-list, name and sinks, and the prefixer,
\* colorizer and formats of its console sink, stay as constructed; the
\* console sink a waiting callback prints with is that same sink.
C24_ReadOnlyConfiguration ==
    [][(Truthy(instance) /\ result'.op \in UseOps) =>
            /\ instance' = instance
            /\ \A cb \in WaitingNext : cb.this = instance.cClient]_vars

\* a Logger with both sinks and an allow-list, after a request whose
\* response has finished: the record was sent and the line printed
C24_Witness ==
    /\ result = Returned("finished", Undef)
    /\ Truthy(instance) /\ Truthy(instance.cClient) /\ Truthy(instance.tClient)
    /\ Truthy(instance.whitelist)
    /\ cout # <<>> /\ tout # <<>> /\ tout[1].op = "trackRequest"

---------------------------------------------------------------------------
(* A telemetry client that raises *)

\* the stored Logger has a telemetry client, and it is down
ClientDown ==
    Truthy(instance) /\ Truthy(instance.tClient) /\ instance.tClient.key = DownKey

\* C25: on a Logger whose telemetry client raises, every call that goes past
\* its gate, and flush, ends with the Error of the client raised to the
\* caller; the client has recorded nothing.
C25_TelemetryFailurePropagates ==
    [][(ClientDown /\ result'.op \in SyncOps \cup {"request", "flush"}) =>
            /\ result'.kind = "throw"
            /\ result'.value = TelemetryFailure
            /\ tout' = tout]_vars

\* track('m', 5) has raised the Error of the client
C25_Witness ==
    /\ ClientDown
    /\ result = Threw("track", TelemetryFailure)
    /\ tout = <<>>

---------------------------------------------------------------------------
(* The sinks a call is delivered to *)

\* what this step gave the console sink (a line, or a callback to print one
\* later) and the telemetry client
ToConsole   == (Len(cout') - Len(cout)) + (Pending' - Pending)
ToTelemetry == Len(tout') - Len(tout)

---------------------------------------------------------------------------
(* The console sink is called before the telemetry client *)

\* the stored Logger has both sinks
BothSinks == Truthy(instance) /\ Truthy(instance.cClient) /\ Truthy(instance.tClient)

\* C27: on a Logger with both sinks the console sink is called first: a call
\* that ends in the Error of the console sink (a color that is not a named
\* one) has given the telemetry client nothing, and a call that ends in the
\* Error of the telemetry client has given the console sink its line (or its
\* callback) already.  With such a color every call of debug, info, warn,
\* error, log, track and trace ends in the Error of the console sink.
C27_ConsoleFirst ==
    [][(BothSinks /\ result'.op \in SyncOps \cup {"request"}) =>
            /\ result' = Threw(result'.op, Str("Invalid Color"))
                    => (ToTelemetry = 0 /\ ToConsole = 0)
            /\ result' = Threw(result'.op, TelemetryFailure)
                    => (ToTelemetry = 0 /\ ToConsole = 1)
            /\ result'.kind = "return" => (ToTelemetry = 1 /\ ToConsole = 1)
            /\ ClientDown => result'.kind = "throw"
            /\ (Truthy(instance.cClient.colorizer) /\ result'.op \in SyncOps)
                    => result'.kind = "throw"]_vars

\* info('x') has printed its line and then the telemetry client has raised
C27_Witness ==
    /\ BothSinks /\ ClientDown
    /\ result = Threw("info", TelemetryFailure)
    /\ cout = <<[fn |-> "info", text |-> "[dev-logger]: x"]>>
    /\ tout = <<>>

---------------------------------------------------------------------------
(* A configure that fails *)

\* the last step was a configure whose constructor threw
FailedBefore ==
    result.op = "configure" /\ result.kind = "throw" /\ result.value # AlreadyConfigured

\* the options are ones the constructor accepts
Valid(options) == Accepted(OptionOf(options, "telemetry"), OptionOf(options, "sources"))

\* C28: a configure whose constructor throws (telemetry provider missing or
\* not supported, sources not an array) stores no Logger.  Right after it,
\* every pass-through function and getInstance raise 'not yet configured',
\* and a configure with valid options stores the Logger it returns.
C28_FailedConfigure ==
    [][/\ (Constructs /\ result'.kind = "throw") =>
            (instance' = Undef /\ ~Valid(Given) /\ nextId' = nextId)
       /\ FailedBefore =>
            /\ Falsy(instance)
            /\ result'.op \in PassThroughOps \cup {"getInstance"} =>
                    /\ result' = Threw(result'.op, NotConfigured)
                    /\ instance' = Undef
                    /\ NoDelivery
            /\ (result'.op = "configure" /\ Valid(Given)) =>
                    /\ result'.kind = "return"
                    /\ Truthy(instance') /\ result'.value = instance']_vars

\* configure has thrown for sources that are not an array; nothing is stored
C28_Witness ==
    /\ result.op = "configure"
    /\ result.kind = "throw"
    /\ result.value = Str("sources option must be an array")
    /\ instance = Undef /\ nextId = 1

---------------------------------------------------------------------------
(* The telemetry record of a request *)

\* the stored Logger has a telemetry client that takes its calls
ClientUp == Truthy(instance) /\ Truthy(instance.tClient) /\ ~ClientDown

\* C29: request(req, res) on a Logger with a telemetry client hands the
\* client one trackRequest record of req and res while the call runs,
\* whether the response has finished or not, and prints nothing; with a
\* console sink its line waits for the response.  Steps that run the waiting
\* callbacks print and hand the client nothing.
C29_RequestRecordAtOnce ==
    [][/\ (ClientUp /\ result'.op = "request") =>
            /\ \E i \in ResIds :
                  tout' = Append(tout, [op |-> "trackRequest",
                                        args |-> <<RunRequest, Res(i)>>])
            /\ cout' = cout
            /\ finished' = finished
            /\ Pending' = Pending + (IF Truthy(instance.cClient) THEN 1 ELSE 0)
       /\ result'.op \in {"finished", "immediate"} =>
            /\ tout' = tout
            /\ Pending' < Pending => Len(cout') > Len(cout) \/ result'.kind = "throw"]_vars

\* the record of the request is with the client, the response has not
\* finished and the line is not printed
C29_Witness ==
    /\ ClientUp /\ Truthy(instance.cClient)
    /\ result = Returned("request", Undef)
    /\ tout = <<[op |-> "trackRequest", args |-> <<RunRequest, Res(1)>>]>>
    /\ ~finished[1] /\ Len(listeners[1]) = 1
    /\ cout = <<>>

---------------------------------------------------------------------------
(* The source of a trace on the console *)

\* the prefix option of a console option; Undef when none is given
PrefixOf(console) ==
    IF console.t = "object" /\ "prefix" \in DOMAIN console.o THEN console.o["prefix"]
    ELSE Undef

\* a flag of a prefix object, or what it is by default
FlagOn(prefix, flag, default) ==
    IF flag \in DOMAIN prefix.o THEN Truthy(prefix.o[flag]) ELSE default

\* the prefix option is false, or has time, name and stream all off
PrefixOff(prefix) ==
    IF prefix = Undef THEN FALSE
    ELSE IF prefix.t = "boolean" THEN ~prefix.b
    ELSE ~FlagOn(prefix, "time", FALSE) /\ ~FlagOn(prefix, "name", TRUE)
            /\ ~FlagOn(prefix, "stream", FALSE)

\* C30: a console sink has no prefixer exactly if its prefix option is false
\* or has time, name and stream all off.  The line of trace(source, command,
\* duration, success) on a sink with no prefixer is the message 'executed
\* [command] in duration ms' or 'failed to execute [command] in duration ms'
\* alone, in the color of the sink if it has one: the source is not in it.
\* On a sink with a prefixer the line is the segments of the flags that are
\* on, then [source], then ': ' and the message.  The source is a string
\* that is not empty.
C30_TraceSource ==
    [][/\ (Configures /\ Truthy(instance'.cClient)) =>
            (instance'.cClient.prefixer = Undef <=> PrefixOff(PrefixOf(Given["console"])))
       /\ (result'.op = "trace" /\ PrintsLine) =>
            \A a \in ProperTraceArgs :
                \/ LET this == instance.cClient
                   IN  IF this.prefixer = Undef
                       THEN Line = Shown(this, "info", a[1], TraceMessage(a))
                       ELSE \E now \in Timestamps :
                              Line = Shown(this, "info", a[1],
                                        Segment(this, "time", now)
                                        \o Segment(this, "name", "dev-logger")
                                        \o Segment(this, "stream", "info")
                                        \o "[" \o a[1].s \o "]: " \o TraceMessage(a))
                \/ ~trace(a[1], a[2], a[3], a[4])]_vars

\* time, name and stream all off: the line of trace('dev-db', 'select', 15)
\* is the message alone
C30_Witness ==
    /\ result = Returned("trace", Undef)
    /\ Truthy(instance) /\ Truthy(instance.cClient)
    /\ instance.cClient.prefixer = Undef
    /\ instance.cClient.colorizer = Undef
    /\ Len(cout) = 1 /\ cout[1].text \in {"executed [select] in 15 ms",
                                          "failed to execute [select] in 15 ms"}

====
